---- MODULE Spec2Model ----
(***************************************************************************)
(* Model of the blink file manager's concurrent pipeline:                  *)
(*   - the directory load controller of FileGridView (scan generations),   *)
(*     together with the drag-and-drop handler that rescans the view;      *)
(*   - the paste orchestrator of the main window (worker thread, event     *)
(*     channel, resolution channel, conflict dialogs);                     *)
(*   - the file operations called directly (move_file, Clipboard::paste);  *)
(*   - the search engine GlobalSearch and its worker threads.              *)
(* File names are sequences of one-character strings, paths are sequences  *)
(* of names, and the filesystem is a function from the existing paths to   *)
(* their metadata.                                                         *)
(***************************************************************************)
EXTENDS Integers, Sequences, FiniteSets, TLC

VARIABLES
    fs,               \* the filesystem: existing path -> [is_dir, data]
    current_path,     \* FileGridView.current_path
    store,            \* FileGridView.store (gio::ListStore of FileObject)
    store_parts,      \* history: the scans whose entries make up store, in the
                      \* order they were put there; gen 0 is a drag-and-drop rescan
    selection,        \* selected positions of the MultiSelection over store
    all_entries,      \* FileGridView.all_entries
    show_hidden,      \* FileGridView.show_hidden
    current_scan_id,  \* FileGridView.current_scan_id
    scans,            \* scan threads and their one-shot channels, in flight
    recv_log,         \* history: what became of each scan result the view received
    drops,            \* drag-and-drop copy workers and their completion futures
    clipboard,        \* Clipboard {paths, mode}
    window_path,      \* NautilusWindow.current_path
    paste,            \* the paste invocation: worker thread, channels, UI future
    call,             \* history: the last call of a file operation and its outcome
    search,           \* GlobalSearch {results, is_searching} and its worker threads
    copier,           \* a thread calling copy_file_with_progress, and its ProgressInfo
    history,          \* NautilusWindow: the paths navigated to
    history_index,    \* NautilusWindow: the position in history, counted from 0
    pinned            \* PinnedFolderStore.store, and the outcome of the last call

loadVars == <<current_path, store, store_parts, selection, all_entries, show_hidden,
              current_scan_id, scans, recv_log, drops>>
pasteVars == <<clipboard, window_path, paste>>
apiVars == <<call, search, copier>>
sideVars == <<history, history_index, pinned>>
vars == <<fs, loadVars, pasteVars, apiVars, sideVars>>

----------------------------------------------------------------------------
(* Bounds of the model *)

MaxLoads == 2     \* load_directory calls explored
MaxDrops == 1     \* drag-and-drop operations explored
MaxRenames == 1   \* Rename answers the user gives within one paste
MaxCalls == 1     \* direct calls of the file operations explored
MaxSearches == 2  \* search() calls explored
MaxCancelled == 1 \* search() calls explored where the threads are scheduled fairly
MaxScans == 2     \* direct calls of the scanner explored
BigFiles == 5001  \* regular files in the big directory searched

----------------------------------------------------------------------------
(* Names and paths *)

\* One-character strings used in file names, with their byte values.
CharCode(c) ==
    CASE c = " " -> 32 [] c = "(" -> 40 [] c = ")" -> 41 [] c = "." -> 46
      [] c = "0" -> 48 [] c = "1" -> 49 [] c = "2" -> 50 [] c = "3" -> 51
      [] c = "4" -> 52 [] c = "5" -> 53 [] c = "6" -> 54 [] c = "7" -> 55
      [] c = "8" -> 56 [] c = "9" -> 57
      [] c = "A" -> 65 [] c = "B" -> 66 [] c = "C" -> 67 [] c = "N" -> 78
      [] c = "a" -> 97 [] c = "b" -> 98 [] c = "c" -> 99 [] c = "n" -> 110
      [] c = "t" -> 116

\* char::to_lowercase on the characters above
LowerChar(c) ==
    CASE c = "A" -> "a" [] c = "B" -> "b" [] c = "C" -> "c" [] c = "N" -> "n"
      [] OTHER -> c

\* str::to_lowercase
ToLowercase(name) == [i \in 1..Len(name) |-> LowerChar(name[i])]

\* Ord for str: byte-wise lexicographic order, a < b
RECURSIVE StrLess(_, _)
StrLess(a, b) ==
    IF b = <<>> THEN FALSE
    ELSE IF a = <<>> THEN TRUE
    ELSE IF CharCode(Head(a)) # CharCode(Head(b))
         THEN CharCode(Head(a)) < CharCode(Head(b))
    ELSE StrLess(Tail(a), Tail(b))

\* the decimal digits
Digit(d) ==
    CASE d = 0 -> "0" [] d = 1 -> "1" [] d = 2 -> "2" [] d = 3 -> "3" [] d = 4 -> "4"
      [] d = 5 -> "5" [] d = 6 -> "6" [] d = 7 -> "7" [] d = 8 -> "8" [] d = 9 -> "9"

\* Display for the integer counter of the autorename loop
RECURSIVE DigitStr(_)
DigitStr(n) ==
    IF n < 10 THEN <<Digit(n)>> ELSE DigitStr(n \div 10) \o <<Digit(n % 10)>>

\* Path::join for a relative single-component name
Join(dir, name) == Append(dir, name)

\* Path::file_name
FileName(path) == path[Len(path)]

\* Path::parent
Parent(path) == SubSeq(path, 1, Len(path) - 1)

\* position of the last '.' of a name, 0 when there is none
LastDot(name) ==
    LET dots == {i \in 1..Len(name) : name[i] = "."}
    IN IF dots = {} THEN 0 ELSE CHOOSE i \in dots : \A j \in dots : j <= i

\* Path::file_stem: the name before its last '.', the whole name when it has
\* no '.' or only a leading one
FileStem(path) ==
    LET name == FileName(path) d == LastDot(name)
    IN IF d <= 1 THEN name ELSE SubSeq(name, 1, d - 1)

\* Path::extension, formatted as ".{ext}" and "" when there is none
Extension(path) ==
    LET name == FileName(path) d == LastDot(name)
    IN IF d <= 1 THEN <<>> ELSE SubSeq(name, d, Len(name))

\* format!("{} ({}){}", stem, counter, extension)
NewName(source, counter) ==
    FileStem(source) \o <<" ", "(">> \o DigitStr(counter) \o <<")">> \o Extension(source)

DirA == << <<"A">> >>
DirB == << <<"B">> >>
Dirs == {DirA, DirB}
NoPath == <<>>    \* PathBuf::new()

FileA == Join(DirA, <<"a">>)
FileB == Join(DirA, <<"b", ".", "t">>)
FileC == Join(DirA, <<"c">>)
DirN == Join(DirA, <<"N">>)    \* an empty directory

\* Path::exists
Exists(f, path) == path \in DOMAIN f

\* Path::is_dir
IsDir(f, path) == path \in DOMAIN f /\ f[path].is_dir

\* the direct children of a directory
Children(f, dir) == {p \in DOMAIN f : Len(p) = Len(dir) + 1 /\ Parent(p) = dir}

\* the filesystem with path created or overwritten
Put(f, path, meta) == [p \in DOMAIN f \cup {path} |-> IF p = path THEN meta ELSE f[p]]

\* the filesystem with path removed
Remove(f, path) == [p \in DOMAIN f \ {path} |-> f[p]]

File(data) == [is_dir |-> FALSE, data |-> data]
Directory == [is_dir |-> TRUE, data |-> 0]

InitFs ==
    (DirA :> Directory) @@ (DirB :> Directory)
    @@ (FileA :> File(1)) @@ (FileB :> File(2))
    @@ (Join(DirB, <<"b", ".", "t">>) :> File(4))
    @@ (Join(DirB, <<".", "n">>) :> File(5))

----------------------------------------------------------------------------
(* Scanner *)

\* the mutation of the sort key that compares the names as they are
KeyLessCaseSensitive(a, b) ==
    \/ a.is_directory /\ ~b.is_directory
    \/ a.is_directory = b.is_directory /\ StrLess(a.name, b.name)

\* the sort key (!e.is_directory, e.name.to_lowercase()), compared as a tuple
KeyLess(a, b) ==
    \/ a.is_directory /\ ~b.is_directory
    \/ a.is_directory = b.is_directory
       /\ StrLess(ToLowercase(a.name), ToLowercase(b.name))

\* the orders a stable sort by KeyLess can leave the entries in: entries of
\* equal key keep the order read_dir enumerated them in, which is any order
RECURSIVE SortedSeqs(_)
SortedSeqs(S) ==
    IF S = {} THEN {<<>>}
    ELSE UNION { { <<m>> \o t : t \in SortedSeqs(S \ {m}) } :
                 m \in {x \in S : \A y \in S : ~KeyLess(y, x)} }

\* the FileEntry of a path
Entry(f, path) ==
    [name |-> FileName(path), path |-> path, is_directory |-> f[path].is_dir]

ScanErr == [ok |-> FALSE, entries |-> <<>>]

\* the mutation of scan_with_hidden that lists the hidden names whatever
\* show_hidden is
ScanShowsHidden(f, path, hidden) ==
    IF ~IsDir(f, path) THEN {ScanErr}
    ELSE {ScanErr} \cup
         { [ok |-> TRUE, entries |-> s] :
           s \in SortedSeqs({Entry(f, p) : p \in Children(f, path)}) }

\* Scanner::scan_with_hidden: the results it can return on filesystem f. A
\* path that is no directory fails in read_dir; any read can fail with an
\* I/O error.
ScanWithHidden(f, path, hidden) ==
    IF ~IsDir(f, path) THEN {ScanErr}
    ELSE LET kept == {p \in Children(f, path) :
                        hidden \/ Head(FileName(p)) # "."}
         IN {ScanErr} \cup
            { [ok |-> TRUE, entries |-> s] :
              s \in SortedSeqs({Entry(f, p) : p \in kept}) }

----------------------------------------------------------------------------
(* File operations *)

\* the buffer of copy_single_file_with_progress: vec![0u8; 64 * 1024]
ChunkSize == 65536

CopyErr(f) == [ok |-> FALSE, fs |-> f]

\* path with its prefix src replaced by dst
Rebase(path, src, dst) == dst \o SubSeq(path, Len(src) + 1, Len(path))

\* the paths strictly below a directory
Descendants(f, dir) ==
    {p \in DOMAIN f : Len(p) > Len(dir) /\ SubSeq(p, 1, Len(dir)) = dir}

\* a directory copy that empties an existing destination directory first
CopyDirReplaces(f, src, dst) ==
    [p \in (DOMAIN f \ Descendants(f, dst)) \cup {dst}
          \cup {Rebase(q, src, dst) : q \in Descendants(f, src)} |->
      IF p = dst THEN Directory
      ELSE IF \E q \in Descendants(f, src) : Rebase(q, src, dst) = p
           THEN f[CHOOSE q \in Descendants(f, src) : Rebase(q, src, dst) = p]
           ELSE f[p]]

\* copy_dir_recursive and copy_dir_recursive_with_progress when every step
\* succeeds: create_dir_all(destination), which leaves an existing directory
\* and its entries as they are, and every entry of the source copied to the
\* same name below the destination
CopyDirRecursive(f, src, dst) ==
    [p \in DOMAIN f \cup {dst}
          \cup {Rebase(q, src, dst) : q \in Descendants(f, src)} |->
      IF p = dst THEN Directory
      ELSE IF \E q \in Descendants(f, src) : Rebase(q, src, dst) = p
           THEN LET q == CHOOSE q \in Descendants(f, src) : Rebase(q, src, dst) = p
                IN IF src = dst /\ ~f[q].is_dir THEN File(0) ELSE f[q]
           ELSE f[p]]

\* FileOperations::copy_file and copy_file_with_progress, as far as the
\* filesystem goes: the outcomes of copying src to dst. A file copied onto
\* itself is truncated by the create of the destination. A directory copied
\* to a path below itself is copied into its own copy until a path is too
\* long, and the call returns that error.
CopyFile(f, src, dst) ==
    IF ~Exists(f, src) \/ ~IsDir(f, Parent(dst)) THEN {CopyErr(f)}
    ELSE IF IsDir(f, src) /\ Len(dst) > Len(src) /\ SubSeq(dst, 1, Len(src)) = src
    THEN {CopyErr(f)}
    ELSE IF IsDir(f, src)
    THEN IF Exists(f, dst) /\ ~IsDir(f, dst) THEN {CopyErr(f)}
         ELSE { CopyErr(f), [ok |-> TRUE, fs |-> CopyDirRecursive(f, src, dst)] }
    ELSE IF IsDir(f, dst) THEN {CopyErr(f)}
    ELSE { CopyErr(f),
           [ok |-> TRUE, fs |-> Put(f, dst, File(IF src = dst THEN 0 ELSE f[src].data))] }

----------------------------------------------------------------------------
(* Directory load controller: FileGridView *)

\* FileObject::new(entry)
FileObject(entry) == entry

FileObjects(entries) == [i \in 1..Len(entries) |-> FileObject(entries[i])]

\* a generation check that also lets the results of older scans through
IsLatestScanOrOlder(scan_id) == scan_id <= current_scan_id

\* the generation check of the receiving future
IsLatestScan(scan_id) == current_scan_id = scan_id

\* FileGridView::load_directory(path): the synchronous part, up to the spawn
\* of the scan thread and of the receiving future
LoadDirectoryUpTo(path, max) ==
    /\ current_scan_id < max
    /\ selection' = {}
    /\ current_path' = path
    /\ store' = <<>>
    /\ store_parts' = <<>>
    /\ current_scan_id' = current_scan_id + 1
    /\ scans' = scans \cup {[scan_id |-> current_scan_id + 1, path |-> path,
                             show_hidden |-> show_hidden, sent |-> FALSE,
                             result |-> ScanErr]}
    /\ UNCHANGED <<all_entries, show_hidden>>

LoadDirectory(path) == LoadDirectoryUpTo(path, MaxLoads)

\* a Vec::truncate that keeps the whole vector
TruncateNothing(v, len) == v

\* Vec::truncate(len): the first len elements, the whole vector when it is
\* not longer than len
Truncate(v, len) == IF len < Len(v) THEN SubSeq(v, 1, len) ELSE v

\* NautilusWindow::navigate_to(path, add_to_history), with at most max loads
\* of the view; history_index counts from 0, a sequence from 1
NavigateTo(path, add_to_history, max) ==
    /\ window_path' = path
    /\ LoadDirectoryUpTo(path, max)
    /\ IF add_to_history
       THEN /\ history_index' = history_index + 1
            /\ history' = Append(Truncate(history, history_index + 1), path)
       ELSE UNCHANGED <<history, history_index>>
    /\ UNCHANGED <<fs, recv_log, drops, clipboard, paste, apiVars, pinned>>

\* the view's part of a navigation (navigate_to, back, forward, sidebar):
\* load_directory(path); what the window does to its history around it is
\* NavigateTo, GestureBack and GestureForward
Navigate ==
    /\ \E path \in Dirs : LoadDirectory(path)
    /\ UNCHANGED <<fs, recv_log, drops, pasteVars, apiVars, sideVars>>

\* FileGridView::refresh
Refresh ==
    /\ LoadDirectory(current_path)
    /\ UNCHANGED <<fs, recv_log, drops, pasteVars, apiVars, sideVars>>

\* the scan thread: Scanner::scan_with_hidden, then tx.send_blocking(result)
ScanRun ==
    \E s \in scans :
        /\ ~s.sent
        /\ \E r \in ScanWithHidden(fs, s.path, s.show_hidden) :
            scans' = (scans \ {s}) \cup {[s EXCEPT !.sent = TRUE, !.result = r]}
        /\ UNCHANGED <<fs, current_path, store, store_parts, selection, all_entries,
                       show_hidden, current_scan_id, recv_log, drops, pasteVars, apiVars, sideVars>>

\* the receiving future of load_directory: rx.recv().await and what follows
ScanRecv ==
    \E s \in scans :
        /\ s.sent
        /\ scans' = scans \ {s}
        /\ IF IsLatestScan(s.scan_id) /\ s.result.ok
           THEN /\ all_entries' = s.result.entries
                /\ store' = store \o FileObjects(s.result.entries)
                /\ store_parts' = Append(store_parts, [gen |-> s.scan_id, path |-> s.path])
           ELSE UNCHANGED <<all_entries, store, store_parts>>
        /\ recv_log' = recv_log @@ (s.scan_id :>
                IF s.scan_id = current_scan_id
                THEN IF s.result.ok THEN "applied" ELSE "failed"
                ELSE IF s.result.ok THEN "discarded" ELSE "discarded_err")
        /\ UNCHANGED <<fs, current_path, selection, show_hidden,
                       current_scan_id, drops, pasteVars, apiVars, sideVars>>

\* the user clicks a row of the view: it becomes the selection
Select ==
    /\ \E i \in 1..Len(store) :
        /\ selection # {i}
        /\ selection' = {i}
    /\ UNCHANGED <<fs, current_path, store, store_parts, all_entries, show_hidden,
                   current_scan_id, scans, recv_log, drops, pasteVars, apiVars, sideVars>>

----------------------------------------------------------------------------
(* Drag and drop onto the view *)

\* an entry of the history of a call: one source transferred to the
\* destination chosen for it in dest_dir, with the filesystem before and after
Copied(mode, src, dest_dir, dst, before, after) ==
    [mode |-> mode, src |-> src, dest_dir |-> dest_dir, dst |-> dst,
     before |-> before, after |-> after]

\* the thread that calls copy_file_with_progress for each of its jobs with one
\* ProgressInfo, before it has started. stack holds the invocations of
\* copy_dir_recursive_with_progress with the entries they have still to take,
\* pending the source and destination about to be entered or opened, file the
\* file that is open with the number of bytes written; src, dst, before and
\* base are the arguments of the call in progress, the filesystem and the
\* ProgressInfo it started from, and log is the history of the calls that
\* have returned.
IdleCopier ==
    [pc |-> "idle", jobs |-> <<>>, stack |-> <<>>,
     pending |-> [src |-> <<>>, dst |-> <<>>],
     file |-> [src |-> <<>>, dst |-> <<>>, offset |-> 0],
     progress |-> [current_file |-> <<>>, bytes_copied |-> 0, files_copied |-> 0],
     src |-> <<>>, dst |-> <<>>, before |-> <<>>,
     base |-> [current_file |-> <<>>, bytes_copied |-> 0, files_copied |-> 0],
     log |-> <<>>]

\* PinnedFolderStore with no folder pinned and no call made: store is the
\* ListStore of PinnedFolderObject {path, name}; n, op, path, ok, err and
\* value are history: the number of calls, and the last call with its
\* argument and what it returned
NoPinned ==
    [store |-> <<>>, n |-> 0, op |-> "none", path |-> <<>>, ok |-> TRUE,
     err |-> "none", value |-> FALSE]

\* no file operation has been called
NoCall == [n |-> 0, op |-> "none", src |-> NoPath, dst |-> NoPath, before |-> <<>>,
           after |-> <<>>,
           ok |-> TRUE, step |-> "none", log |-> <<>>]

\* the file lists dropped onto the view
DropInputs == { <<FileB>> }

\* the destination the drop worker settles on: the first of dest_dir/name,
\* dest_dir/"stem (1).ext", dest_dir/"stem (2).ext", ... that does not exist
\* an autorename that tries "stem (1).ext" and does not look further
AutoRenameOnce(f, source, dest_dir, dest_path, counter) ==
    IF ~Exists(f, dest_path) THEN dest_path
    ELSE Join(dest_dir, NewName(source, counter))

RECURSIVE AutoRename(_, _, _, _, _)
AutoRename(f, source, dest_dir, dest_path, counter) ==
    IF ~Exists(f, dest_path) THEN dest_path
    ELSE AutoRename(f, source, dest_dir, Join(dest_dir, NewName(source, counter)), counter + 1)

\* connect_drop: the handler on the UI thread, which spawns the worker thread
\* and the completion future; inputs and max bound the drops explored
DropOf(inputs, max) ==
    /\ Len(drops) < max
    /\ \E files \in inputs :
        drops' = Append(drops, [files |-> files, dest_dir |-> current_path,
                                show_hidden_val |-> show_hidden, idx |-> 1,
                                phase |-> "copying", dest_path |-> NoPath])
    /\ UNCHANGED <<fs, current_path, store, store_parts, selection, all_entries,
                   show_hidden, current_scan_id, scans, recv_log, pasteVars, apiVars, sideVars>>

Drop == DropOf(DropInputs, MaxDrops)

\* the drop worker thread, first half of an iteration of its loop over the
\* dropped files: a source that is its own destination is skipped, otherwise
\* the `while dest_path.exists()` loop settles on a destination
DropCheck ==
    \E k \in DOMAIN drops : LET d == drops[k] IN
        /\ d.phase = "copying"
        /\ d.idx <= Len(d.files)
        /\ LET source_file == d.files[d.idx]
               dest_path == AutoRename(fs, source_file, d.dest_dir,
                                       Join(d.dest_dir, FileName(source_file)), 1)
           IN IF source_file = Join(d.dest_dir, FileName(source_file))
              THEN /\ drops' = [drops EXCEPT ![k].idx = d.idx + 1]
                   /\ fs' = fs
              ELSE /\ drops' = [drops EXCEPT ![k].phase = "chosen",
                                             ![k].dest_path = dest_path]
                   /\ fs' = fs
        /\ UNCHANGED <<current_path, store, store_parts, selection, all_entries,
                       show_hidden, current_scan_id, scans, recv_log, pasteVars, apiVars, sideVars>>

\* the second half: FileOperations::copy_file(source_file, &dest_path), whose
\* error is printed and otherwise ignored
DropCopy ==
    \E k \in DOMAIN drops : LET d == drops[k] IN
        /\ d.phase = "chosen"
        /\ \E r \in CopyFile(fs, d.files[d.idx], d.dest_path) : fs' = r.fs
        /\ drops' = [drops EXCEPT ![k].idx = d.idx + 1, ![k].phase = "copying"]
        /\ UNCHANGED <<current_path, store, store_parts, selection, all_entries,
                       show_hidden, current_scan_id, scans, recv_log, pasteVars, apiVars, sideVars>>

\* the drop worker thread after its loop: tx.send_blocking(())
DropSignal ==
    \E k \in DOMAIN drops : LET d == drops[k] IN
        /\ d.phase = "copying"
        /\ d.idx > Len(d.files)
        /\ drops' = [drops EXCEPT ![k].phase = "sent"]
        /\ UNCHANGED <<fs, current_path, store, store_parts, selection, all_entries,
                       show_hidden, current_scan_id, scans, recv_log, pasteVars, apiVars, sideVars>>

\* the completion future: rx.recv().await, then the 500 ms timer is armed
DropRecv ==
    \E k \in DOMAIN drops : LET d == drops[k] IN
        /\ d.phase = "sent"
        /\ drops' = [drops EXCEPT ![k].phase = "timer"]
        /\ UNCHANGED <<fs, current_path, store, store_parts, selection, all_entries,
                       show_hidden, current_scan_id, scans, recv_log, pasteVars, apiVars, sideVars>>

\* the 500 ms timer fires: a synchronous scan of the drop's destination, and
\* on success the store is emptied and refilled
DropRescan ==
    \E k \in DOMAIN drops : LET d == drops[k] IN
        /\ d.phase = "timer"
        /\ drops' = [drops EXCEPT ![k].phase = "done"]
        /\ \E r \in ScanWithHidden(fs, d.dest_dir, d.show_hidden_val) :
            IF r.ok
            THEN /\ store' = FileObjects(r.entries)
                 /\ store_parts' = <<[gen |-> 0, path |-> d.dest_dir]>>
                 /\ selection' = {}
            ELSE UNCHANGED <<store, store_parts, selection>>
        /\ UNCHANGED <<fs, current_path, all_entries, show_hidden,
                       current_scan_id, scans, recv_log, pasteVars, apiVars, sideVars>>

----------------------------------------------------------------------------
(* Clipboard *)

\* Clipboard::new
NoClipboard == [paths |-> <<>>, mode |-> "None"]

\* the path lists the user copies or cuts
ClipInputs == { <<FileA, FileB, FileC>>, <<DirN>> }

\* the names the user types into the rename dialog; the empty text too
RenameInputs == { <<>>, <<"b", ".", "t">>, <<"n">> }

----------------------------------------------------------------------------
(* Paste orchestrator: the paste handler of the main window *)

\* PasteEvent
Conflict(path) == [type |-> "Conflict", path |-> path, mode |-> "None"]
Finished(mode) == [type |-> "Finished", path |-> NoPath, mode |-> mode]

\* ConflictResolution; "for" is history: the Conflict the UI was answering
Resolution(kind, name, for) == [kind |-> kind, name |-> name, for |-> for]

\* an entry of the worker's history
Hist(ev, idx, src, dst, ok) == [ev |-> ev, idx |-> idx, src |-> src, dst |-> dst, ok |-> ok]

\* ProgressInfo, without current_file
ProgressInfo(bytes_copied, total_bytes, files_copied, total_files) ==
    [bytes_copied |-> bytes_copied, total_bytes |-> total_bytes,
     files_copied |-> files_copied, total_files |-> total_files]
NoProgress == ProgressInfo(0, 0, 0, 0)

\* no paste has been invoked. progress is the ProgressInfo of the paste, timer
\* its 100 ms polling timer and sample what the timer read last.
\* refresh is the 500 ms timer of the Finished handler: none, scheduled, or
\* issued once it has called refresh().
\* checked, replace_for and hist are history: the
\* path whose existence the worker checked last and what it found, the path
\* of the Conflict its last Replace answered, and what the worker has done.
IdlePaste ==
    [pc |-> "idle", ui |-> "idle", paths |-> <<>>, mode |-> "None", dest |-> NoPath,
     idx |-> 1, dest_path |-> NoPath,
     checked |-> [path |-> NoPath, existed |-> FALSE], replace_for |-> NoPath,
     events |-> <<>>, resolve |-> <<>>, response |-> <<>>, asked |-> NoPath,
     renames |-> 0, hist |-> <<>>,
     progress |-> NoProgress, timer |-> "none", sample |-> NoProgress, stale |-> 0,
     refresh |-> "none"]

\* a path and everything below it
Subtree(f, path) == {path} \cup Descendants(f, path)

\* fs::remove_file and fs::remove_dir_all
RemoveTree(f, path) == [p \in DOMAIN f \ Subtree(f, path) |-> f[p]]

\* a rename that leaves the source in place
RenamedKeepsSource(f, src, dst) ==
    IF src = dst THEN f
    ELSE [p \in DOMAIN f \cup {Rebase(q, src, dst) : q \in Subtree(f, src)} |->
            IF \E q \in Subtree(f, src) : Rebase(q, src, dst) = p
            THEN f[CHOOSE q \in Subtree(f, src) : Rebase(q, src, dst) = p]
            ELSE f[p]]

\* fs::rename when it succeeds: src and what is below it now live at dst
Renamed(f, src, dst) ==
    IF src = dst THEN f
    ELSE LET moved == {Rebase(q, src, dst) : q \in Subtree(f, src)}
         IN [p \in (DOMAIN f \ Subtree(f, src)) \cup moved |->
                IF p \in moved
                THEN f[CHOOSE q \in Subtree(f, src) : Rebase(q, src, dst) = p]
                ELSE f[p]]

\* dst lies strictly below src
Inside(src, dst) == Len(dst) > Len(src) /\ SubSeq(dst, 1, Len(src)) = src

\* fs::rename can succeed: the source exists, the destination's parent is a
\* directory, the destination is not an entry of the other kind, not a
\* directory that holds entries (ENOTEMPTY) and not below the source (EINVAL)
RenamePossible(f, src, dst) ==
    /\ Exists(f, src)
    /\ IsDir(f, Parent(dst))
    /\ ~(Exists(f, dst) /\ IsDir(f, dst) # IsDir(f, src))
    /\ ~(IsDir(f, dst) /\ dst # src /\ Descendants(f, dst) # {})
    /\ ~Inside(src, dst)

\* the two directories of the model may lie on different filesystems, and
\* then fs::rename between them fails (EXDEV)
CrossDevice(src, dst) == Parent(src) # Parent(dst)

\* a move_file that removes the source whether or not the copy succeeded
MoveFileRemovesAnyway(f, src, dst) ==
    (IF RenamePossible(f, src, dst)
     THEN {[ok |-> TRUE, fs |-> Renamed(f, src, dst), step |-> "rename"]} ELSE {})
    \cup
    (IF RenamePossible(f, src, dst) /\ ~CrossDevice(src, dst) THEN {}
     ELSE { [ok |-> c.ok, fs |-> RemoveTree(c.fs, src), step |-> "delete"] :
            c \in CopyFile(f, src, dst) })

\* FileOperations::move_file: a rename, and when it fails a copy followed by
\* the removal of the source. step is the last step taken.
MoveFile(f, src, dst) ==
    (IF RenamePossible(f, src, dst)
     THEN {[ok |-> TRUE, fs |-> Renamed(f, src, dst), step |-> "rename"]} ELSE {})
    \cup
    (IF RenamePossible(f, src, dst) /\ ~CrossDevice(src, dst) THEN {}
     ELSE UNION { IF ~c.ok THEN {[ok |-> FALSE, fs |-> c.fs, step |-> "copy"]}
                  ELSE { [ok |-> TRUE, fs |-> RemoveTree(c.fs, src), step |-> "delete"],
                         [ok |-> FALSE, fs |-> c.fs, step |-> "delete"] } :
                  c \in CopyFile(f, src, dst) })

\* the regular files at and below a path
FilesUnder(f, path) == {p \in Subtree(f, path) : p \in DOMAIN f /\ ~f[p].is_dir}

\* the sum of the lengths of a set of regular files; a file's data stands
\* for its length as well as its content
RECURSIVE TotalLen(_, _)
TotalLen(f, S) ==
    IF S = {} THEN 0
    ELSE LET p == CHOOSE p \in S : TRUE IN f[p].data + TotalLen(f, S \ {p})

\* FileOperations::calculate_total_size
RECURSIVE CalculateTotalSize(_, _)
CalculateTotalSize(f, paths) ==
    IF paths = <<>> THEN [bytes |-> 0, files |-> 0]
    ELSE LET rest == CalculateTotalSize(f, Tail(paths))
             here == IF Exists(f, Head(paths)) THEN FilesUnder(f, Head(paths)) ELSE {}
         IN [bytes |-> TotalLen(f, here) + rest.bytes,
             files |-> Cardinality(here) + rest.files]

\* FileOperations::copy_file_with_progress: the copy, with what it adds to
\* bytes_copied and files_copied. A file copied onto itself is truncated
\* before it is read, so no byte of it is counted.
CopyFileWithProgress(f, src, dst) ==
    { [ok |-> c.ok, fs |-> c.fs,
       bytes |-> IF c.ok /\ src # dst THEN TotalLen(f, FilesUnder(f, src)) ELSE 0,
       files |-> IF c.ok THEN Cardinality(FilesUnder(f, src)) ELSE 0] :
      c \in CopyFile(f, src, dst) }

\* FileOperations::move_file_with_progress: after a rename files_copied grows
\* by one and bytes_copied by the length of what source names after the
\* rename, when that is a regular file; the fallback counts as the copy does
MoveFileWithProgress(f, src, dst) ==
    { [ok |-> m.ok, fs |-> m.fs, step |-> m.step,
       files |-> IF m.step = "rename" THEN 1
                 ELSE IF m.step = "delete" THEN Cardinality(FilesUnder(f, src))
                 ELSE 0,
       bytes |-> IF m.step = "rename"
                 THEN IF Exists(m.fs, src) /\ ~IsDir(m.fs, src) THEN m.fs[src].data ELSE 0
                 ELSE IF m.step = "delete" THEN TotalLen(f, FilesUnder(f, src))
                 ELSE 0] :
      m \in MoveFile(f, src, dst) }

\* a copy that adds the paths to those the clipboard holds
ClipboardCopyExtends(cb, paths) == [paths |-> cb.paths \o paths, mode |-> "Copy"]

\* Clipboard::copy
ClipboardCopy(cb, paths) == [cb EXCEPT !.paths = paths, !.mode = "Copy"]

\* Clipboard::cut
ClipboardCut(cb, paths) == [cb EXCEPT !.paths = paths, !.mode = "Cut"]

\* connect_copy: Clipboard::copy
ClipCopy ==
    /\ paste.pc = "idle"
    /\ \E paths \in ClipInputs : clipboard' = ClipboardCopy(clipboard, paths)
    /\ UNCHANGED <<fs, loadVars, apiVars, sideVars, window_path, paste>>

\* connect_cut: Clipboard::cut
ClipCut ==
    /\ paste.pc = "idle"
    /\ \E paths \in ClipInputs : clipboard' = ClipboardCut(clipboard, paths)
    /\ UNCHANGED <<fs, loadVars, apiVars, sideVars, window_path, paste>>

\* a clear that resets the mode and keeps the paths
ClipboardClearKeepsPaths(cb) == [cb EXCEPT !.mode = "None"]

\* Clipboard::clear: paths.clear(); mode = None
ClipboardClear(cb) == [cb EXCEPT !.paths = <<>>, !.mode = "None"]

\* a call of Clipboard::clear
ClipClear ==
    /\ paste.pc = "idle"
    /\ clipboard' = ClipboardClear(clipboard)
    /\ UNCHANGED <<fs, loadVars, apiVars, sideVars, window_path, paste>>

\* connect_paste: the handler on the UI thread, which snapshots the clipboard,
\* creates the channels, spawns the listening future and the worker thread
PasteStart ==
    /\ paste.pc = "idle"
    /\ ~(clipboard.mode = "None" \/ clipboard.paths = <<>>)
    /\ LET total == CalculateTotalSize(fs, clipboard.paths)
       IN paste' = [IdlePaste EXCEPT !.pc = "next", !.ui = "listening",
                        !.paths = clipboard.paths, !.mode = clipboard.mode,
                        !.dest = window_path,
                        !.progress = ProgressInfo(0, total.bytes, 0, total.files),
                        !.sample = ProgressInfo(0, total.bytes, 0, total.files),
                        !.timer = "on"]
    /\ UNCHANGED <<fs, loadVars, apiVars, sideVars, clipboard, window_path>>

\* a worker that takes its sources from the live clipboard
WorkerSourceLive(snapshot, live, idx) ==
    IF idx \in DOMAIN live THEN live[idx] ELSE NoPath

\* the source the worker is at: an element of paths_clone, the copy of the
\* clipboard's paths made when the paste was invoked
WorkerSource(snapshot, live, idx) == snapshot[idx]

CurrentSource == WorkerSource(paste.paths, clipboard.paths, paste.idx)

\* the worker thread at the top of its loop over the paths: the next source
\* and its first candidate destination, or Finished after the last path
WorkerNext ==
    /\ paste.pc = "next"
    /\ IF paste.idx > Len(paste.paths)
       THEN paste' = [paste EXCEPT !.pc = "done",
                        !.events = Append(@, Finished(paste.mode)),
                        !.hist = Append(@, Hist("finished", paste.idx, NoPath, NoPath, TRUE))]
       ELSE IF CurrentSource = NoPath
       THEN paste' = [paste EXCEPT !.idx = @ + 1]
       ELSE paste' = [paste EXCEPT !.pc = "check",
                        !.dest_path = Join(paste.dest, FileName(CurrentSource))]
    /\ UNCHANGED <<fs, loadVars, apiVars, sideVars, clipboard, window_path>>

\* the conflict loop: dest_path.exists(), and Conflict(dest_path) when it does
WorkerCheck ==
    /\ paste.pc = "check"
    /\ IF ~Exists(fs, paste.dest_path)
       THEN paste' = [paste EXCEPT !.pc = "transfer",
                        !.checked = [path |-> paste.dest_path, existed |-> FALSE]]
       ELSE IF paste.ui = "closed"
       THEN paste' = [paste EXCEPT !.pc = "returned"]
       ELSE paste' = [paste EXCEPT !.pc = "await",
                        !.checked = [path |-> paste.dest_path, existed |-> TRUE],
                        !.events = Append(@, Conflict(paste.dest_path)),
                        !.hist = Append(@, Hist("conflict", paste.idx,
                                        CurrentSource, paste.dest_path, TRUE))]
    /\ UNCHANGED <<fs, loadVars, apiVars, sideVars, clipboard, window_path>>

\* a worker that takes Cancel to skip the current file only
ResolveCancelSkipsFile(r) ==
    IF r.kind = "Replace"
    THEN [paste EXCEPT !.pc = "transfer", !.resolve = Tail(@), !.replace_for = r.for,
            !.hist = Append(@, Hist("Replace", paste.idx, r.for, paste.dest_path, TRUE))]
    ELSE IF r.kind = "Rename"
    THEN [paste EXCEPT !.pc = "check", !.resolve = Tail(@),
            !.dest_path = Join(paste.dest, r.name),
            !.hist = Append(@, Hist("Rename", paste.idx, r.for, Join(paste.dest, r.name), TRUE))]
    ELSE [paste EXCEPT !.pc = "next", !.idx = @ + 1, !.resolve = Tail(@),
            !.events = Append(@, Finished(paste.mode)),
            !.hist = Append(Append(@, Hist("Cancel", paste.idx, r.for, paste.dest_path, TRUE)),
                            Hist("finished", paste.idx, NoPath, NoPath, TRUE))]

\* a worker that returns on Cancel without sending Finished
ResolveCancelSilent(r) ==
    IF r.kind = "Replace"
    THEN [paste EXCEPT !.pc = "transfer", !.resolve = Tail(@), !.replace_for = r.for,
            !.hist = Append(@, Hist("Replace", paste.idx, r.for, paste.dest_path, TRUE))]
    ELSE IF r.kind = "Rename"
    THEN [paste EXCEPT !.pc = "check", !.resolve = Tail(@),
            !.dest_path = Join(paste.dest, r.name),
            !.hist = Append(@, Hist("Rename", paste.idx, r.for, Join(paste.dest, r.name), TRUE))]
    ELSE [paste EXCEPT !.pc = "returned", !.resolve = Tail(@),
            !.hist = Append(@, Hist("Cancel", paste.idx, r.for, paste.dest_path, TRUE))]

\* a worker that transfers onto the renamed candidate without checking it
ResolveRenameUnchecked(r) ==
    IF r.kind = "Replace"
    THEN [paste EXCEPT !.pc = "transfer", !.resolve = Tail(@), !.replace_for = r.for,
            !.hist = Append(@, Hist("Replace", paste.idx, r.for, paste.dest_path, TRUE))]
    ELSE IF r.kind = "Rename"
    THEN [paste EXCEPT !.pc = "transfer", !.resolve = Tail(@),
            !.dest_path = Join(paste.dest, r.name),
            !.hist = Append(@, Hist("Rename", paste.idx, r.for, Join(paste.dest, r.name), TRUE))]
    ELSE [paste EXCEPT !.pc = "done", !.resolve = Tail(@),
            !.events = Append(@, Finished(paste.mode)),
            !.hist = Append(Append(@, Hist("Cancel", paste.idx, r.for, paste.dest_path, TRUE)),
                            Hist("finished", paste.idx, NoPath, NoPath, TRUE))]

\* what the worker does with the resolution it has received
Resolve(r) ==
    IF r.kind = "Replace"
    THEN [paste EXCEPT !.pc = "transfer", !.resolve = Tail(@), !.replace_for = r.for,
            !.hist = Append(@, Hist("Replace", paste.idx, r.for, paste.dest_path, TRUE))]
    ELSE IF r.kind = "Rename"
    THEN [paste EXCEPT !.pc = "check", !.resolve = Tail(@),
            !.dest_path = Join(paste.dest, r.name),
            !.hist = Append(@, Hist("Rename", paste.idx, r.for, Join(paste.dest, r.name), TRUE))]
    ELSE [paste EXCEPT !.pc = "done", !.resolve = Tail(@),
            !.events = Append(@, Finished(paste.mode)),
            !.hist = Append(Append(@, Hist("Cancel", paste.idx, r.for, paste.dest_path, TRUE)),
                            Hist("finished", paste.idx, NoPath, NoPath, TRUE))]

\* resolve_rx.recv_blocking() returns
WorkerAwait ==
    /\ paste.pc = "await"
    /\ paste.resolve # <<>>
    /\ paste' = Resolve(Head(paste.resolve))
    /\ UNCHANGED <<fs, loadVars, apiVars, sideVars, clipboard, window_path>>

\* the outcomes of the transfer of one source in the mode of the paste
Transfer(f, mode, src, dst) ==
    IF mode = "Copy" THEN CopyFileWithProgress(f, src, dst)
    ELSE IF mode = "Cut" THEN MoveFileWithProgress(f, src, dst)
    ELSE {[ok |-> TRUE, fs |-> f, bytes |-> 0, files |-> 0]}

\* a worker that returns at the first transfer error
AfterTransferAbortsOnError(ok) == IF ok THEN "next" ELSE "returned"

\* where the worker goes after a transfer that returned ok or an error
AfterTransfer(ok) == "next"

\* the copy or move of the current source onto dest_path
WorkerTransfer ==
    /\ paste.pc = "transfer"
    /\ \E r \in Transfer(fs, paste.mode, CurrentSource, paste.dest_path) :
        /\ fs' = r.fs
        /\ paste' = [paste EXCEPT !.pc = AfterTransfer(r.ok), !.idx = @ + 1,
                        !.progress.bytes_copied = @ + r.bytes,
                        !.progress.files_copied = @ + r.files,
                        !.stale = IF clipboard = [paths |-> paste.paths, mode |-> paste.mode]
                                  THEN @ ELSE @ + 1,
                        !.hist = Append(@, Hist("transfer", paste.idx,
                                        CurrentSource, paste.dest_path, r.ok))]
    /\ UNCHANGED <<loadVars, apiVars, sideVars, clipboard, window_path>>

\* a Finished handler that clears the clipboard in every mode
ClearAlways(mode, cb) == NoClipboard

\* the Finished handler: the clipboard is cleared when the mode was Cut
ClearIfCut(mode, cb) == IF mode = "Cut" THEN NoClipboard ELSE cb

\* a Finished handler that schedules the refresh after a Cut only
RefreshTimeoutIfCut(mode) == IF mode = "Cut" THEN "scheduled" ELSE "none"

\* the Finished handler: glib::timeout_add_local(500 ms), whatever the mode
RefreshTimeout(mode) == "scheduled"

\* the listening future: event_rx.recv().await and the match on the event
UiRecv ==
    /\ paste.ui = "listening"
    /\ paste.events # <<>>
    /\ LET event == Head(paste.events)
       IN IF event.type = "Finished"
          THEN /\ paste' = [paste EXCEPT !.ui = "closed", !.events = Tail(@),
                                         !.refresh = RefreshTimeout(event.mode)]
               /\ clipboard' = ClearIfCut(event.mode, clipboard)
          ELSE /\ paste' = [paste EXCEPT !.ui = "dialog", !.events = Tail(@),
                                         !.asked = event.path]
               /\ UNCHANGED clipboard
    /\ UNCHANGED <<fs, loadVars, apiVars, sideVars, window_path>>

\* the user answers the conflict dialog: replace, rename or cancel (close)
DialogRespond ==
    /\ paste.ui = "dialog"
    /\ \E response \in {"replace", "rename", "cancel"} :
        paste' = IF response = "replace"
                 THEN [paste EXCEPT !.ui = "forward",
                         !.response = <<Resolution("Replace", <<>>, paste.asked)>>]
                 ELSE IF response = "rename"
                 THEN [paste EXCEPT !.ui = "rename_dialog"]
                 ELSE [paste EXCEPT !.ui = "forward",
                         !.response = <<Resolution("Cancel", <<>>, paste.asked)>>]
    /\ UNCHANGED <<fs, loadVars, apiVars, sideVars, clipboard, window_path>>

\* the user answers the rename dialog: apply with the text typed, or cancel
RenameRespond ==
    /\ paste.ui = "rename_dialog"
    /\ \E res \in {"apply", "cancel"}, new_name \in RenameInputs :
        paste' = IF res = "apply" /\ new_name # <<>> /\ paste.renames < MaxRenames
                 THEN [paste EXCEPT !.ui = "forward", !.renames = @ + 1,
                         !.response = <<Resolution("Rename", new_name, paste.asked)>>]
                 ELSE [paste EXCEPT !.ui = "forward",
                         !.response = <<Resolution("Cancel", <<>>, paste.asked)>>]
    /\ UNCHANGED <<fs, loadVars, apiVars, sideVars, clipboard, window_path>>

\* the 100 ms timer of the progress dialog fires: it reads ProgressInfo and
\* goes on while files_copied < total_files
ProgressPoll ==
    /\ paste.timer = "on"
    /\ paste' = [paste EXCEPT !.sample = paste.progress,
                              !.timer = IF paste.progress.files_copied
                                            < paste.progress.total_files
                                        THEN "on" ELSE "stopped"]
    /\ UNCHANGED <<fs, loadVars, apiVars, sideVars, clipboard, window_path>>

\* the 500 ms timer of the Finished handler fires, once: refresh() on the
\* view, which is load_directory(current_path)
RefreshTimer ==
    /\ paste.refresh = "scheduled"
    /\ LoadDirectory(current_path)
    /\ paste' = [paste EXCEPT !.refresh = "issued"]
    /\ UNCHANGED <<fs, recv_log, drops, apiVars, sideVars, clipboard, window_path>>

\* a listening future that sends the answer twice
ForwardedTwice(res) == <<res, res>>

\* the resolutions the listening future sends for one answer of the user
Forwarded(res) == <<res>>

\* the listening future resumes: response_rx.recv().await, resolve_tx.send(res)
UiForward ==
    /\ paste.ui = "forward"
    /\ paste.response # <<>>
    /\ paste' = [paste EXCEPT !.ui = "listening", !.response = <<>>,
                              !.resolve = @ \o Forwarded(Head(paste.response))]
    /\ UNCHANGED <<fs, loadVars, apiVars, sideVars, clipboard, window_path>>

----------------------------------------------------------------------------
(* Search engine: GlobalSearch *)

\* the bounds of search_recursive: `*count > 5000` and `results.len() > 5000`
CountLimit == 5000
ResultLimit == 5000

\* str::contains
Contains(name, query) ==
    \E i \in 1..(Len(name) - Len(query) + 1) :
        SubSeq(name, i, i + Len(query) - 1) = query

\* the tree searched: /A holds the files a and b.t and the directory N, which
\* holds a file a; /B holds b.t and the hidden .n
SearchFs == Put(Put(InitFs, DirN, Directory), Join(DirN, <<"a">>), File(7))

\* a directory of BigFiles regular files f1, f2, ...: its files are counted
\* instead of being kept in fs
BigDir == << <<"F">> >>
BigName == <<"f">>

\* the arguments search() is called with
SearchInput(query, root_path, hidden) ==
    [query |-> query, root_path |-> root_path, show_hidden |-> hidden]
NoInput == SearchInput(<<>>, NoPath, FALSE)
SearchInputs ==
    { SearchInput(<<"a">>, DirA, FALSE), SearchInput(<<"n">>, DirA, FALSE),
      SearchInput(<<"n">>, DirB, TRUE), SearchInput(<<"b">>, DirB, FALSE) }
BigInputs == { SearchInput(BigName, BigDir, FALSE) }

\* GlobalSearch::new, with no search() call in progress and no worker thread.
\* results[w] is the number of entries of the shared Vec that worker w pushed.
IdleSearch ==
    [is_searching |-> FALSE, results |-> <<>>, caller |-> "idle",
     pending |-> NoInput, inputs |-> {}, budget |-> 0, cancelled |-> FALSE,
     workers |-> <<>>]

RECURSIVE SeqSum(_)
SeqSum(s) == IF s = <<>> THEN 0 ELSE Head(s) + SeqSum(Tail(s))

\* results.lock().unwrap().len()
ResultsLen(results) == SeqSum(results)

\* one invocation of search_recursive on the worker's call stack: the
\* directory, where the invocation stands, the entries of read_dir not yet
\* taken (rest: by path, bulk: the files of BigDir still to come)
Frame(path) == [path |-> path, pc |-> "enter", rest |-> <<>>, bulk |-> 0]

\* the thread spawned by search(): its arguments, the call stack of
\* search_recursive, its local count, what on_complete was called with, and
\* history: own, the matches it pushed; late, those pushed while a later
\* search() had spawned its worker; after_push and after_enter, the matches
\* pushed and the search_recursive calls that passed their cancellation
\* check since cancel(); names, the lower-cased names of the entries it
\* pushed that results holds, and delivered_names, those of the entries
\* on_complete was called with
Worker(inp) ==
    [query |-> ToLowercase(inp.query), show_hidden |-> inp.show_hidden,
     stack |-> <<Frame(inp.root_path)>>, count |-> 0, pc |-> "run",
     delivered |-> <<>>, called |-> 0, names |-> {}, delivered_names |-> {},
     own |-> 0, late |-> 0, after_push |-> 0, after_enter |-> 0]

\* fs::read_dir, in the order the entries are taken
ReadDir(f, path) ==
    IF path = BigDir THEN [rest |-> <<>>, bulk |-> BigFiles]
    ELSE LET s == CHOOSE t \in SortedSeqs({Entry(f, p) : p \in Children(f, path)}) : TRUE
         IN [rest |-> [i \in 1..Len(s) |-> s[i].path], bulk |-> 0]

\* the check at the head of search_recursive, the mutation that forgets the
\* cancellation flag there, and the check at the head of the entry loop:
\* TRUE when the invocation returns
EntryStopIgnoresFlag(is_searching, count) == count > CountLimit
EntryStop(is_searching, count) == ~is_searching \/ count > CountLimit
LoopStop(is_searching) == ~is_searching

\* search(), first statement: *self.is_searching.lock().unwrap() = false
SearchCancelPrevious ==
    /\ search.caller = "idle"
    /\ search.budget > 0
    /\ \E inp \in search.inputs :
         search' = [search EXCEPT !.is_searching = FALSE, !.caller = "flag",
                                  !.pending = inp, !.cancelled = FALSE]
    /\ UNCHANGED <<fs, loadVars, pasteVars, call, copier, sideVars>>

\* search(), second statement: *self.is_searching.lock().unwrap() = true
SearchSetFlag ==
    /\ search.caller = "flag"
    /\ search' = [search EXCEPT !.is_searching = TRUE, !.caller = "spawn"]
    /\ UNCHANGED <<fs, loadVars, pasteVars, call, copier, sideVars>>

\* search(), the rest: results.clear() and thread::spawn
SearchSpawn ==
    /\ search.caller = "spawn"
    /\ search' = [search EXCEPT
                    !.results = [i \in 1..(Len(search.workers) + 1) |-> 0],
                    !.workers = Append([w \in DOMAIN @ |-> [@[w] EXCEPT !.names = {}]],
                                       Worker(search.pending)),
                    !.caller = "idle", !.pending = NoInput,
                    !.budget = @ - 1]
    /\ UNCHANGED <<fs, loadVars, pasteVars, call, copier, sideVars>>

\* cancel()
SearchCancel ==
    /\ search.caller = "idle"
    /\ search.is_searching
    /\ search' = [search EXCEPT
                    !.is_searching = FALSE, !.cancelled = TRUE,
                    !.workers = [w \in DOMAIN @ |->
                                   [@[w] EXCEPT !.after_push = 0, !.after_enter = 0]]]
    /\ UNCHANGED <<fs, loadVars, pasteVars, call, copier, sideVars>>

Running(w) ==
    /\ w \in DOMAIN search.workers
    /\ search.workers[w].pc = "run"
    /\ search.workers[w].stack # <<>>

Top(w) == Head(search.workers[w].stack)

\* search_recursive, lines 72-80: the cancellation check and the count bound
SearchEnter(w) ==
    /\ Running(w)
    /\ Top(w).pc = "enter"
    /\ LET me == search.workers[w]
       IN search' = [search EXCEPT !.workers[w] =
             IF EntryStop(search.is_searching, me.count)
             THEN [me EXCEPT !.stack = Tail(@)]
             ELSE [me EXCEPT !.stack[1].pc = "limits",
                             !.after_enter = IF search.cancelled THEN @ + 1 ELSE @]]
    /\ UNCHANGED <<fs, loadVars, pasteVars, call, copier, sideVars>>

\* search_recursive, lines 82-90: the bound on results and read_dir, which
\* fails on what is no directory and can fail on any
SearchReadDir(w) ==
    /\ Running(w)
    /\ Top(w).pc = "limits"
    /\ LET me == search.workers[w]
           path == Top(w).path
           return == [me EXCEPT !.stack = Tail(@)]
           listed == ReadDir(fs, path)
       IN \/ search' = [search EXCEPT !.workers[w] = return]
          \/ /\ ResultsLen(search.results) <= ResultLimit
             /\ path = BigDir \/ IsDir(fs, path)
             /\ search' = [search EXCEPT !.workers[w] =
                             [me EXCEPT !.stack[1].pc = "loop",
                                        !.stack[1].rest = listed.rest,
                                        !.stack[1].bulk = listed.bulk]]
    /\ UNCHANGED <<fs, loadVars, pasteVars, call, copier, sideVars>>

\* the head of the entry loop, lines 92-95: the end of the entries, and the
\* cancellation check before each of them
SearchLoopCheck(w) ==
    /\ Running(w)
    /\ Top(w).pc = "loop"
    /\ LET me == search.workers[w]
       IN search' = [search EXCEPT !.workers[w] =
             IF (Top(w).rest = <<>> /\ Top(w).bulk = 0) \/ LoopStop(search.is_searching)
             THEN [me EXCEPT !.stack = Tail(@)]
             ELSE [me EXCEPT !.stack[1].pc = "entry"]]
    /\ UNCHANGED <<fs, loadVars, pasteVars, call, copier, sideVars>>

\* the body of the entry loop, lines 97-166: hidden names are skipped, a
\* matching name is pushed to results and counted, a directory is recursed
\* into
SearchEntry(w) ==
    /\ Running(w)
    /\ Top(w).pc = "entry"
    /\ LET me == search.workers[w]
           top == Top(w)
           named == top.rest # <<>>
           file_name == IF named THEN FileName(Head(top.rest)) ELSE BigName
           is_directory == named /\ IsDir(fs, Head(top.rest))
           hidden == ~me.show_hidden /\ Head(file_name) = "."
           matches == ~hidden /\ Contains(ToLowercase(file_name), me.query)
           next == [top EXCEPT !.pc = "loop",
                               !.rest = IF named THEN Tail(@) ELSE @,
                               !.bulk = IF named THEN @ ELSE @ - 1]
           n == IF matches THEN 1 ELSE 0
       IN search' = [search EXCEPT
             !.results[w] = @ + n,
             !.workers[w] =
                [me EXCEPT
                   !.count = @ + n,
                   !.own = @ + n,
                   !.names = IF matches THEN @ \cup {ToLowercase(file_name)} ELSE @,
                   !.late = IF w < Len(search.workers) THEN @ + n ELSE @,
                   !.after_push = IF search.cancelled THEN @ + n ELSE @,
                   !.stack = IF is_directory /\ ~hidden
                             THEN <<Frame(Head(top.rest)), next>> \o Tail(@)
                             ELSE <<next>> \o Tail(@)]]
    /\ UNCHANGED <<fs, loadVars, pasteVars, call, copier, sideVars>>

\* the end of the thread, lines 55-59: on_complete, taken out of its Option,
\* is called with a clone of results
SearchComplete(w) ==
    /\ w \in DOMAIN search.workers
    /\ search.workers[w].pc = "run"
    /\ search.workers[w].stack = <<>>
    /\ search' = [search EXCEPT !.workers[w].pc = "done",
                                !.workers[w].called = @ + 1,
                                !.workers[w].delivered = search.results,
                                !.workers[w].delivered_names =
                                    UNION {search.workers[v].names : v \in DOMAIN search.workers}]
    /\ UNCHANGED <<fs, loadVars, pasteVars, call, copier, sideVars>>

\* a step of worker thread w
SearchWorker(w) ==
    \/ SearchEnter(w)
    \/ SearchReadDir(w)
    \/ SearchLoopCheck(w)
    \/ SearchEntry(w)
    \/ SearchComplete(w)

InitSearchWith(inputs, budget) ==
    /\ fs = SearchFs
    /\ current_path = DirA
    /\ window_path = current_path
    /\ show_hidden = FALSE
    /\ store = <<>>
    /\ store_parts = <<>>
    /\ selection = {}
    /\ all_entries = <<>>
    /\ current_scan_id = 1
    /\ scans = {}
    /\ recv_log = <<>>
    /\ drops = <<>>
    /\ clipboard = NoClipboard
    /\ paste = IdlePaste
    /\ call = NoCall
    /\ search = [IdleSearch EXCEPT !.inputs = inputs, !.budget = budget]
    /\ copier = IdleCopier
    /\ history = <<window_path>>
    /\ history_index = 0
    /\ pinned = NoPinned

InitSearch == InitSearchWith(SearchInputs, MaxSearches)

NextSearch ==
    \/ SearchCancelPrevious
    \/ SearchSetFlag
    \/ SearchSpawn
    \/ SearchCancel
    \/ \E w \in 1..MaxSearches : SearchEnter(w)
    \/ \E w \in 1..MaxSearches : SearchReadDir(w)
    \/ \E w \in 1..MaxSearches : SearchLoopCheck(w)
    \/ \E w \in 1..MaxSearches : SearchEntry(w)
    \/ \E w \in 1..MaxSearches : SearchComplete(w)

\* concurrent searches and cancel()
SpecSearch == InitSearch /\ [][NextSearch]_vars

\* search() and cancel() with every spawned thread scheduled until it ends
InitSearchCancel == InitSearchWith(SearchInputs, MaxCancelled)

SpecSearchFair ==
    /\ InitSearchCancel
    /\ [][NextSearch]_vars
    /\ \A w \in 1..MaxSearches : WF_vars(SearchWorker(w))

\* one search of the big directory, run to its end
InitSearchBig == InitSearchWith(BigInputs, 1)

NextSearchBig ==
    \/ SearchCancelPrevious
    \/ SearchSetFlag
    \/ SearchSpawn
    \/ SearchEnter(1)
    \/ SearchReadDir(1)
    \/ SearchLoopCheck(1)
    \/ SearchEntry(1)
    \/ SearchComplete(1)

SpecSearchBig == InitSearchBig /\ [][NextSearchBig]_vars

----------------------------------------------------------------------------
(* The file operations called directly: move_file, move_file_with_progress, *)
(* Clipboard::paste                                                         *)

\* the filesystem with the sources of the clipboard in place
PasteFs == Put(Put(InitFs, FileC, File(3)), DirN, Directory)

\* the filesystems the calls start from: B holds b.t, and b (1).t or not
OpsFs == { PasteFs, Put(PasteFs, Join(DirB, NewName(FileB, 1)), File(6)) }

\* the sources and destinations move_file is called with
MoveSources == { FileA, FileB }
MoveDests == { FileA, Join(DirB, <<"b", ".", "t">>), Join(DirB, <<"n">>), DirB }

\* Clipboard::paste(destination): the loop over self.paths, which returns at
\* the first error; the outcomes with the history of the transfers made
RECURSIVE ClipboardPaste(_, _, _, _)
ClipboardPaste(f, paths, mode, destination) ==
    IF paths = <<>> THEN {[ok |-> TRUE, fs |-> f, log |-> <<>>]}
    ELSE LET source == Head(paths)
         IN IF source = NoPath THEN {[ok |-> FALSE, fs |-> f, log |-> <<>>]}
            ELSE LET dest_path == AutoRename(f, source, destination,
                                             Join(destination, FileName(source)), 1)
                     transfers == IF mode = "Copy" THEN CopyFile(f, source, dest_path)
                                  ELSE MoveFile(f, source, dest_path)
                 IN UNION {
                      LET entry == Copied(mode, source, destination, dest_path, f, t.fs)
                      IN IF ~t.ok THEN {[ok |-> FALSE, fs |-> t.fs, log |-> <<entry>>]}
                         ELSE { [r EXCEPT !.log = <<entry>> \o @] :
                                r \in ClipboardPaste(t.fs, Tail(paths), mode, destination) } :
                      t \in transfers }

\* a call of FileOperations::move_file
MoveFileCall ==
    /\ call.n < MaxCalls
    /\ \E src \in MoveSources, dst \in MoveDests :
        \E m \in MoveFile(fs, src, dst) :
            /\ fs' = m.fs
            /\ call' = [n |-> call.n + 1, op |-> "move_file", src |-> src, dst |-> dst,
                        before |-> fs, after |-> m.fs, ok |-> m.ok, step |-> m.step,
                        log |-> <<>>]
    /\ UNCHANGED <<loadVars, pasteVars, search, copier, sideVars>>

\* a call of FileOperations::move_file_with_progress; log holds the update of
\* ProgressInfo that the rename path makes under one lock
MoveFileWithProgressCall ==
    /\ call.n < MaxCalls
    /\ \E src \in MoveSources, dst \in MoveDests :
        \E m \in MoveFileWithProgress(fs, src, dst) :
            /\ fs' = m.fs
            /\ call' = [n |-> call.n + 1, op |-> "move_file_with_progress", src |-> src,
                        dst |-> dst, before |-> fs, after |-> m.fs, ok |-> m.ok,
                        step |-> m.step,
                        log |-> IF m.step = "rename"
                                THEN <<[files |-> m.files, bytes |-> m.bytes]>>
                                ELSE <<>>]
    /\ UNCHANGED <<loadVars, pasteVars, search, copier, sideVars>>

\* a paste that clears the clipboard after a Cut whether or not it succeeded
ClearedAfterAnyCut(cb, ok) ==
    IF cb.mode = "Cut" THEN [cb EXCEPT !.paths = <<>>, !.mode = "None"] ELSE cb

\* the end of Clipboard::paste: an error has returned through `?` before the
\* clear; after the loop the clipboard is cleared when the mode is Cut
ClearedAfterCut(cb, ok) ==
    IF ok /\ cb.mode = "Cut" THEN [cb EXCEPT !.paths = <<>>, !.mode = "None"] ELSE cb

\* a call of Clipboard::paste: the early return when there is nothing to
\* paste, and otherwise the loop over the paths and the clear after a Cut
ClipboardPasteCall ==
    /\ call.n < MaxCalls
    /\ \E destination \in Dirs :
        IF clipboard.mode = "None" \/ clipboard.paths = <<>>
        THEN /\ UNCHANGED <<fs, clipboard>>
             /\ call' = [n |-> call.n + 1, op |-> "paste", src |-> NoPath,
                         dst |-> destination, before |-> fs, after |-> fs, ok |-> TRUE,
                         step |-> "none", log |-> <<>>]
        ELSE \E r \in ClipboardPaste(fs, clipboard.paths, clipboard.mode, destination) :
                /\ fs' = r.fs
                /\ clipboard' = ClearedAfterCut(clipboard, r.ok)
                /\ call' = [n |-> call.n + 1, op |-> "paste", src |-> NoPath,
                            dst |-> destination, before |-> fs, after |-> r.fs,
                            ok |-> r.ok, step |-> "none", log |-> r.log]
    /\ UNCHANGED <<loadVars, window_path, paste, search, copier, sideVars>>

\* the view shows a directory whose load has completed; of a drop only the
\* worker's copies are followed here, its completion is followed under SpecLoad
InitOps ==
    /\ fs \in OpsFs
    /\ current_path \in Dirs
    /\ window_path = current_path
    /\ show_hidden = FALSE
    /\ store = <<>>
    /\ store_parts = <<>>
    /\ selection = {}
    /\ all_entries = <<>>
    /\ current_scan_id = 1
    /\ scans = {}
    /\ recv_log = <<>>
    /\ drops = <<>>
    /\ clipboard = NoClipboard
    /\ paste = IdlePaste
    /\ call = NoCall
    /\ search = IdleSearch
    /\ copier = IdleCopier
    /\ history = <<window_path>>
    /\ history_index = 0
    /\ pinned = NoPinned

NextOps ==
    \/ MoveFileCall
    \/ MoveFileWithProgressCall
    \/ ClipCopy
    \/ ClipCut
    \/ ClipClear
    \/ ClipboardPasteCall

\* the file operations and the clipboard called directly
SpecOps == InitOps /\ [][NextOps]_vars

\* C39: whenever the clipboard's mode is None its path list is empty.
C39_NoneMeansEmpty == clipboard.mode = "None" => clipboard.paths = <<>>

\* a Cut paste that went through all its paths has cleared the clipboard
C39_Witness ==
    /\ call.op = "paste"
    /\ call.ok
    /\ Len(call.log) = 3
    /\ clipboard.mode = "None"

NextAutoRename ==
    \/ ClipCopy
    \/ ClipCut
    \/ ClipboardPasteCall
    \/ Drop
    \/ DropCheck
    \/ DropCopy

\* the two users of the autorename loop: Clipboard::paste and the drop workers
SpecAutoRename == InitOps /\ [][NextAutoRename]_vars

----------------------------------------------------------------------------
(* The paste: initial state and specifications *)

\* the window shows a directory whose load has completed; nothing is on the
\* clipboard and no paste has been invoked
InitPaste ==
    /\ fs = PasteFs
    /\ window_path \in Dirs
    /\ current_path = window_path
    /\ show_hidden = FALSE
    /\ store = <<>>
    /\ store_parts = <<>>
    /\ selection = {}
    /\ all_entries = <<>>
    /\ current_scan_id = 1
    /\ scans = {}
    /\ recv_log = <<>>
    /\ drops = <<>>
    /\ clipboard = NoClipboard
    /\ paste = IdlePaste
    /\ call = NoCall
    /\ search = IdleSearch
    /\ copier = IdleCopier
    /\ history = <<window_path>>
    /\ history_index = 0
    /\ pinned = NoPinned

WorkerStep == WorkerNext \/ WorkerCheck \/ WorkerAwait \/ WorkerTransfer
UiStep == UiRecv \/ UiForward
UserStep == DialogRespond \/ RenameRespond

NextPaste ==
    \/ ClipCopy
    \/ ClipCut
    \/ PasteStart
    \/ WorkerNext
    \/ WorkerCheck
    \/ WorkerAwait
    \/ WorkerTransfer
    \/ UiRecv
    \/ DialogRespond
    \/ RenameRespond
    \/ UiForward
    \/ ProgressPoll
    \/ RefreshTimer

SpecPaste == InitPaste /\ [][NextPaste]_vars

\* the clipboard after a Clipboard::clear, copy or cut called while a paste is
\* in flight
LateClipboards ==
    { NoClipboard, [paths |-> <<FileC, FileA>>, mode |-> "Copy"],
      [paths |-> <<FileB>>, mode |-> "Cut"] }

\* a clear, copy or cut of the clipboard after the paste was dispatched (the
\* progress window can be closed while the worker runs)
ClipboardChange ==
    /\ paste.pc # "idle"
    /\ \E cb \in LateClipboards : clipboard' = cb
    /\ UNCHANGED <<fs, loadVars, apiVars, sideVars, window_path, paste>>

NextPasteLive == NextPaste \/ ClipboardChange

\* the paste with the clipboard in use while it runs
SpecPasteLive == InitPaste /\ [][NextPasteLive]_vars

\* a filesystem in which /A/N and /B/N both hold entries: a of both, n of the
\* source only, c of the destination only
MergeFs ==
    LET DestN == Join(DirB, <<"N">>)
    IN Put(Put(Put(Put(Put(PasteFs, Join(DirN, <<"a">>), File(6)),
                       Join(DirN, <<"n">>), File(0)),
                   DestN, Directory),
               Join(DestN, <<"a">>), File(7)),
           Join(DestN, <<"c">>), File(8))

InitPasteMerge ==
    /\ fs = MergeFs
    /\ window_path \in Dirs
    /\ current_path = window_path
    /\ show_hidden = FALSE
    /\ store = <<>>
    /\ store_parts = <<>>
    /\ selection = {}
    /\ all_entries = <<>>
    /\ current_scan_id = 1
    /\ scans = {}
    /\ recv_log = <<>>
    /\ drops = <<>>
    /\ clipboard = NoClipboard
    /\ paste = IdlePaste
    /\ call = NoCall
    /\ search = IdleSearch
    /\ copier = IdleCopier
    /\ history = <<window_path>>
    /\ history_index = 0
    /\ pinned = NoPinned

\* the paste where source and destination hold directories of the same name
SpecPasteMerge == InitPasteMerge /\ [][NextPaste]_vars

\* the worker thread and the UI event loop, with its timers, are scheduled
\* fairly, and the user answers every dialog
SpecPasteFair ==
    /\ SpecPaste
    /\ WF_vars(WorkerStep) /\ WF_vars(UiStep) /\ WF_vars(UserStep)
    /\ WF_vars(ProgressPoll) /\ WF_vars(RefreshTimer)

----------------------------------------------------------------------------
(* The loading view: initial state and specification *)

\* the state after NautilusWindow::new: the view was created empty and
\* load_directory(initial_path) has been called once
InitLoad ==
    /\ fs = InitFs
    /\ show_hidden = FALSE
    /\ current_path = DirA
    /\ store = <<>>
    /\ store_parts = <<>>
    /\ selection = {}
    /\ all_entries = <<>>
    /\ current_scan_id = 1
    /\ scans = {[scan_id |-> 1, path |-> DirA, show_hidden |-> show_hidden,
                 sent |-> FALSE, result |-> ScanErr]}
    /\ recv_log = <<>>
    /\ drops = <<>>
    /\ clipboard = NoClipboard
    /\ window_path = DirA
    /\ paste = IdlePaste
    /\ call = NoCall
    /\ search = IdleSearch
    /\ copier = IdleCopier
    /\ history = <<window_path>>
    /\ history_index = 0
    /\ pinned = NoPinned

NextLoad ==
    \/ Navigate
    \/ Refresh
    \/ ScanRun
    \/ ScanRecv
    \/ Select
    \/ Drop
    \/ DropCheck
    \/ DropCopy
    \/ DropSignal
    \/ DropRecv
    \/ DropRescan

SpecLoad == InitLoad /\ [][NextLoad]_vars

----------------------------------------------------------------------------
(* Properties of the directory load controller *)

\* the scan result the view receives in this step, if any
Received(s) == s \in scans /\ s.sent /\ s \notin scans'

\* C1: a scan result is applied to the view exactly when the generation it
\* was dispatched with is the view's current generation at the moment it is
\* received: a current Ok result replaces all_entries and is appended to the
\* store, a stale result changes neither; and no row of the view ever comes
\* from a load scan of an older generation.
C1_GenerationCheck ==
    /\ [](\A i \in DOMAIN store_parts :
            store_parts[i].gen # 0 => store_parts[i].gen = current_scan_id)
    /\ [][\A s \in scans : Received(s) =>
            /\ (s.scan_id = current_scan_id /\ s.result.ok) =>
                    /\ all_entries' = s.result.entries
                    /\ store' = store \o FileObjects(s.result.entries)
            /\ s.scan_id # current_scan_id => UNCHANGED <<store, all_entries>>]_vars

\* C1 witness: generation 1 returned an Ok result after generation 2 was
\* dispatched and was discarded, and the view shows generation 2's entries.
C1_Witness ==
    /\ current_scan_id = 2
    /\ 1 \in DOMAIN recv_log /\ recv_log[1] = "discarded"
    /\ 2 \in DOMAIN recv_log /\ recv_log[2] = "applied"
    /\ store # <<>>
    /\ store_parts = <<[gen |-> 2, path |-> current_path]>>

\* C2: the view's listing is either empty or exactly the entries of one scan
\* of the current path.
C2_OneScanOfCurrentPath ==
    \/ store = <<>>
    \/ /\ Len(store_parts) = 1
       /\ store_parts[1].path = current_path

\* C3: once the scan of the current generation has returned an I/O error the
\* view is empty (it stays as load left it) and no scan is in flight for that
\* generation.
C3_ErrorLeavesViewEmpty ==
    (current_scan_id \in DOMAIN recv_log /\ recv_log[current_scan_id] = "failed") =>
        /\ store = <<>>
        /\ \A s \in scans : s.scan_id # current_scan_id

----------------------------------------------------------------------------
(* Properties of the paste orchestrator *)

HistIdx(ev) == {i \in DOMAIN paste.hist : paste.hist[i].ev = ev}
ResolutionIdx == HistIdx("Replace") \cup HistIdx("Rename") \cup HistIdx("Cancel")

\* C4: the worker emits at most one Finished event, and Finished is the last
\* thing it does: no Conflict, copy or move follows it, and nothing follows
\* it on the event channel.
C4_FinishedTerminal ==
    /\ Cardinality(HistIdx("finished")) <= 1
    /\ \A i \in HistIdx("finished") : i = Len(paste.hist)
    /\ \A i \in DOMAIN paste.events :
            paste.events[i].type = "Finished" => i = Len(paste.events)
    /\ paste.ui = "closed" => paste.events = <<>>
    /\ HistIdx("finished") # {} => paste.pc = "done"

\* C4 witness: Finished was emitted after a conflict and a transfer.
C4_Witness ==
    /\ paste.pc = "done"
    /\ HistIdx("finished") # {}
    /\ HistIdx("conflict") # {}
    /\ HistIdx("transfer") # {}

\* C5: every paste that was invoked eventually has its Finished event
\* received by the UI.
C5_EventuallyFinished == (paste.pc # "idle") ~> (paste.ui = "closed")

\* C5 witness: the UI has received Finished of a paste in which a conflict
\* was answered Cancel.
C5_Witness == paste.ui = "closed" /\ HistIdx("Cancel") # {}

\* C6: once the worker has received Cancel for the path at position i, no
\* path at position i or later is transferred, the filesystem is left as the
\* earlier transfers made it, and exactly one Finished event is emitted.
C6_CancelAbortsRemainder ==
    /\ [](\A i \in HistIdx("Cancel") :
            /\ \A j \in HistIdx("transfer") : paste.hist[j].idx < paste.hist[i].idx
            /\ Cardinality(HistIdx("finished")) = 1
            /\ paste.pc = "done")
    /\ [][HistIdx("Cancel")' # {} => fs' = fs]_vars

\* C6 witness: of three files the first was transferred, the second was
\* answered Cancel, and the paste is finished with the first file in place.
C6_Witness ==
    /\ Len(paste.paths) = 3
    /\ paste.ui = "closed"
    /\ \E i \in HistIdx("Cancel") : paste.hist[i].idx = 2
    /\ \E j \in HistIdx("transfer") :
            /\ paste.hist[j].idx = 1 /\ paste.hist[j].ok
            /\ Exists(fs, paste.hist[j].dst)

\* the conflicts the worker has raised that it holds no resolution for yet
Outstanding ==
    Cardinality({i \in DOMAIN paste.events : paste.events[i].type = "Conflict"})
    + (IF paste.ui \in {"dialog", "rename_dialog", "forward"} THEN 1 ELSE 0)
    + Len(paste.resolve)

\* C7: conflicts and resolutions alternate: at most one Conflict is
\* outstanding and at most one resolution is in the resolution channel, the
\* worker waits exactly while one is outstanding, every resolution it
\* receives answers the Conflict it raised last, and the UI sends a resolution
\* only while it is handling a Conflict it received.
C7_StrictAlternation ==
    /\ [](/\ Outstanding <= 1
          /\ Len(paste.resolve) <= 1
          /\ (Outstanding = 1) <=> (paste.pc = "await")
          /\ \A i \in HistIdx("conflict") :
                i < Len(paste.hist) => i + 1 \in ResolutionIdx
          /\ \A i \in ResolutionIdx :
                /\ i - 1 \in HistIdx("conflict")
                /\ paste.hist[i - 1].dst = paste.hist[i].src)
    /\ [][Len(paste.resolve') > Len(paste.resolve) =>
            /\ paste.ui = "forward"
            /\ paste.pc = "await"
            /\ paste.hist # <<>>
            /\ paste.hist[Len(paste.hist)].ev = "conflict"
            /\ paste.hist[Len(paste.hist)].dst = paste.asked]_vars

\* C7 witness: two conflicts of one paste have been raised and resolved.
C7_Witness ==
    /\ Cardinality(HistIdx("conflict")) >= 2
    /\ Cardinality(ResolutionIdx) >= 2

\* C9: the worker transfers onto the path whose existence it checked last, and
\* when that path existed only after a Replace that answers the Conflict for
\* that very path; a Rename makes Join(dest, new_name) the candidate and sends
\* the worker back to the existence check, which raises a Conflict for the
\* candidate when it exists; and the filesystem does not change while the
\* worker waits for a resolution.
C9_ReplaceOnlyOverwrite ==
    /\ [](/\ paste.pc = "transfer" =>
                /\ paste.checked.path = paste.dest_path
                /\ paste.checked.existed =>
                        /\ paste.replace_for = paste.dest_path
                        /\ Len(paste.hist) \in HistIdx("Replace")
          /\ \A i \in HistIdx("transfer") :
                \/ i - 1 \in HistIdx("Replace") /\ paste.hist[i - 1].src = paste.hist[i].dst
                \/ i - 1 \notin ResolutionIdx \cup HistIdx("conflict")
                \/ i - 1 \in HistIdx("Rename") /\ paste.hist[i - 1].dst = paste.hist[i].dst)
    /\ [][/\ (paste.pc = "await" /\ Len(paste.hist') \in HistIdx("Rename")') =>
                /\ paste'.pc = "check"
                /\ paste'.dest_path = Join(paste.dest, Head(paste.resolve).name)
          /\ (paste.pc = "check" /\ Exists(fs, paste.dest_path) /\ paste'.pc # paste.pc) =>
                /\ paste'.pc = "await"
                /\ paste'.events = Append(paste.events, Conflict(paste.dest_path))
          /\ paste.pc = "await" => fs' = fs]_vars

\* C9 witness: a Rename to an existing name raised a new Conflict, which was
\* answered Replace, and the transfer onto the existing path was made.
C9_Witness ==
    \E i \in HistIdx("Rename") :
        /\ i + 1 \in HistIdx("conflict")
        /\ i + 2 \in HistIdx("Replace")
        /\ i + 3 \in HistIdx("transfer")
        /\ paste.hist[i + 3].dst = paste.hist[i].dst

\* C10: a transfer that fails does not end the batch: the worker takes the
\* paths in clipboard order, after a failed transfer it is at the next
\* position of the batch, and unless a Cancel ends the paste it has attempted
\* every path when it stops, and it stops by emitting Finished.
C10_ErrorDoesNotAbort ==
    /\ \A i, j \in HistIdx("transfer") : i < j => paste.hist[i].idx < paste.hist[j].idx
    /\ \A i \in HistIdx("transfer") :
            (~paste.hist[i].ok /\ i = Len(paste.hist)) =>
                /\ paste.pc \in {"next", "check", "transfer"}
                /\ paste.idx = paste.hist[i].idx + 1
    /\ (paste.pc \notin {"idle", "next", "check", "await", "transfer"}
        /\ HistIdx("Cancel") = {}) =>
            /\ HistIdx("finished") # {}
            /\ \A k \in 1..Len(paste.paths) :
                    \E i \in HistIdx("transfer") : paste.hist[i].idx = k

\* C10 witness: the first transfer failed, the third was made, and Finished
\* was emitted.
C10_Witness ==
    /\ paste.pc = "done"
    /\ \E i \in HistIdx("transfer") : paste.hist[i].idx = 1 /\ ~paste.hist[i].ok
    /\ \E i \in HistIdx("transfer") : paste.hist[i].idx = 3 /\ paste.hist[i].ok
    /\ HistIdx("finished") # {}

\* C11: when the UI handles Finished(mode), a Cut leaves the clipboard with
\* no paths and mode None, and a Copy leaves the clipboard's paths and mode
\* what they were when the paste was invoked, so that the paste handler
\* would start the same paste again.
C11_ClipboardAfterFinished ==
    /\ [](paste.ui = "closed" =>
            IF paste.mode = "Cut"
            THEN clipboard = NoClipboard
            ELSE /\ clipboard = [paths |-> paste.paths, mode |-> paste.mode]
                 /\ ~(clipboard.mode = "None" \/ clipboard.paths = <<>>))
    /\ [][(paste.ui # "closed" /\ paste'.ui = "closed") =>
            IF Head(paste.events).mode = "Cut"
            THEN clipboard' = NoClipboard
            ELSE clipboard' = clipboard]_vars

\* C11 witness: the UI has handled the Finished of a Copy paste that
\* transferred a file, and the clipboard still holds the copied paths.
C11_Witness ==
    /\ paste.ui = "closed"
    /\ paste.mode = "Copy"
    /\ clipboard.mode = "Copy"
    /\ clipboard.paths = paste.paths
    /\ \E i \in HistIdx("transfer") : paste.hist[i].ok

\* C12: what the polling timer read last of bytes_copied and files_copied is
\* not more than their present values (no read is followed by a smaller
\* one), and files_copied <= total_files.
C12_ProgressBounds ==
    /\ paste.sample.bytes_copied <= paste.progress.bytes_copied
    /\ paste.sample.files_copied <= paste.progress.files_copied
    /\ paste.progress.files_copied <= paste.progress.total_files

\* C13: once the UI has handled Finished, the polling timer eventually stops.
C13_TimerStopsAfterFinished == (paste.ui = "closed") ~> (paste.timer # "on")

----------------------------------------------------------------------------
(* Properties of the file operations *)

\* dst is dest_dir/name when that does not exist in f, and otherwise
\* "stem (n).ext" for the smallest n >= 1 that does not exist in f
IsSmallestFree(f, src, dest_dir, dst) ==
    /\ ~Exists(f, dst)
    /\ IF ~Exists(f, Join(dest_dir, FileName(src)))
       THEN dst = Join(dest_dir, FileName(src))
       ELSE \E n \in 1..Cardinality(DOMAIN f) :
                /\ dst = Join(dest_dir, NewName(src, n))
                /\ \A k \in 1..(n - 1) : Exists(f, Join(dest_dir, NewName(src, k)))

\* C14: every transfer of Clipboard::paste and every copy of a drop goes to
\* destination/name when that does not exist, and otherwise to
\* "stem (n).ext" for the smallest n >= 1 that does not exist; the destination
\* did not exist when it was checked, and no path that existed then is
\* written: after a copy every such path is there with what it held. The
\* check and the copy of a drop worker are two steps.
C14_AutoRenameSmallestFree ==
    /\ [](call.op = "paste" =>
          \A i \in DOMAIN call.log : LET e == call.log[i] IN
            /\ IsSmallestFree(e.before, e.src, e.dest_dir, e.dst)
            /\ \A q \in DOMAIN e.before :
                    /\ q \in DOMAIN e.after => e.after[q] = e.before[q]
                    /\ e.mode = "Copy" => q \in DOMAIN e.after)
    /\ [][\A k \in DOMAIN drops : k \in DOMAIN drops' =>
            LET src == drops[k].files[drops[k].idx] IN
                /\ (drops[k].phase = "copying" /\ drops'[k].phase = "chosen") =>
                        /\ IsSmallestFree(fs, src, drops[k].dest_dir, drops'[k].dest_path)
                        /\ fs' = fs
                /\ (drops[k].phase = "chosen" /\ drops'[k].phase = "copying") =>
                        /\ \A q \in DOMAIN fs \ {drops[k].dest_path} :
                                q \in DOMAIN fs' /\ fs'[q] = fs[q]
                        /\ \A q \in DOMAIN fs' \ DOMAIN fs :
                                q = drops[k].dest_path /\ fs'[q] = fs[src]]_vars

\* C14 witness: b.t was dropped onto a directory that held b.t and b (1).t;
\* the copy is b (2).t and the two files hold what they held.
C14_Witness ==
    /\ call.n = 0
    /\ Len(drops) = 1
    /\ drops[1].files = <<FileB>> /\ drops[1].dest_dir = DirB /\ drops[1].idx = 2
    /\ Exists(fs, Join(DirB, NewName(FileB, 2)))
    /\ fs[Join(DirB, NewName(FileB, 2))] = fs[FileB]
    /\ fs[Join(DirB, FileName(FileB))] = File(4)
    /\ fs[Join(DirB, NewName(FileB, 1))] = File(6)

\* the last call was a move of a regular file within one filesystem that
\* returned Ok
MovedWithinFilesystem ==
    /\ call.op = "move_file"
    /\ call.ok
    /\ call.step = "rename"
    /\ ~IsDir(call.before, call.src)

\* C15 as stated: after move_file(src, dst) has returned Ok for a regular file,
\* dst holds what src held and src does not exist.
C15_MovePreservesContent ==
    MovedWithinFilesystem =>
        /\ Exists(call.after, call.dst)
        /\ call.after[call.dst] = call.before[call.src]
        /\ ~Exists(call.after, call.src)

\* C15 amended: the same for dst # src; move_file(src, src) returns Ok and
\* leaves src as it was.
C15_MovePreservesContentDistinct ==
    MovedWithinFilesystem =>
        /\ Exists(call.after, call.dst)
        /\ call.after[call.dst] = call.before[call.src]
        /\ call.dst # call.src => ~Exists(call.after, call.src)
        /\ call.dst = call.src => call.after = call.before

\* C15 witness: a regular file was moved onto another path of its directory.
C15_Witness ==
    /\ MovedWithinFilesystem
    /\ call.dst # call.src
    /\ Parent(call.dst) = Parent(call.src)
    /\ call.after[call.dst] = call.before[call.src]
    /\ ~Exists(call.after, call.src)

\* the last call was a move whose rename failed
MoveFellBack ==
    /\ call.op \in {"move_file", "move_file_with_progress"}
    /\ call.step # "rename"

\* C16: when the rename fails, the source is gone only if the call returned
\* Ok, and then the destination holds what the source held; when the copy
\* fails the call returns the error and the source is as it was; when the
\* delete fails after the copy the call returns the error and both the
\* source, as it was, and the destination, with the source's content, exist.
C16_FallbackNeverLosesData ==
    MoveFellBack =>
        /\ call.ok => ~Exists(call.after, call.src)
        /\ (Exists(call.before, call.src) /\ ~Exists(call.after, call.src)) => call.ok
        /\ call.ok => Exists(call.after, call.dst) /\ call.after[call.dst] = call.before[call.src]
        /\ (~call.ok /\ Exists(call.before, call.src)) =>
                /\ Exists(call.after, call.src)
                /\ call.after[call.src] = call.before[call.src]
        /\ call.step = "copy" => ~call.ok /\ call.after = call.before
        /\ (call.step = "delete" /\ ~call.ok) =>
                /\ Exists(call.after, call.dst)
                /\ call.after[call.dst] = call.before[call.src]

\* C16 witness: the rename failed, the copy succeeded and the delete failed:
\* source and destination both exist with the source's content.
C16_Witness ==
    /\ MoveFellBack
    /\ call.step = "delete"
    /\ ~call.ok
    /\ Exists(call.after, call.src)
    /\ Exists(call.after, call.dst)
    /\ call.after[call.dst] = call.after[call.src]

----------------------------------------------------------------------------
(* GlobalSearch: single flight, bounds, completion, cancellation *)

Workers == DOMAIN search.workers

\* C17: once a new search() has spawned its worker, the worker of an earlier
\* search() adds no further match to results.
C17_SingleFlight ==
    \A w \in Workers : search.workers[w].late = 0

\* C18: the list passed to on_complete holds at most 5000 entries, also when
\* one directory alone holds more matching names than that.
C18_ResultBound ==
    \A w \in Workers :
        search.workers[w].called > 0 =>
            ResultsLen(search.workers[w].delivered) <= ResultLimit

\* the list worker w's on_complete received holds the matches this search
\* pushed, and nothing else
DeliveredOwn(w) ==
    LET me == search.workers[w]
    IN \A v \in DOMAIN me.delivered :
          me.delivered[v] = IF v = w THEN me.own ELSE 0

\* C19: a search that has ended has called on_complete exactly once, with the
\* matches it accumulated up to that point.
C19_CompletionOnceWithMatches ==
    \A w \in Workers :
        /\ search.workers[w].called <= 1
        /\ search.workers[w].pc = "done" =>
              /\ search.workers[w].called = 1
              /\ DeliveredOwn(w)

\* every worker thread has ended and called on_complete once
AllCompleted ==
    \A w \in Workers :
        search.workers[w].pc = "done" /\ search.workers[w].called = 1

\* C20: after cancel(), and until a new search() is called, a running worker
\* pushes at most one further match, no search_recursive call passes its
\* cancellation check (no further directory is entered), and every worker
\* ends with on_complete called.
C20_CancelStopsWorker ==
    /\ [](search.cancelled =>
            \A w \in Workers :
                /\ search.workers[w].after_push <= 1
                /\ search.workers[w].after_enter = 0)
    /\ (search.cancelled ~> (~search.cancelled \/ AllCompleted))

\* C20 witness: cancel() found a worker past the check of its entry loop; the
\* worker pushed that one match, ended and called on_complete.
C20_Witness ==
    /\ search.cancelled
    /\ \E w \in Workers :
          /\ search.workers[w].after_push = 1
          /\ search.workers[w].pc = "done"
          /\ search.workers[w].called = 1
          /\ search.workers[w].delivered[w] = search.workers[w].own

----------------------------------------------------------------------------
(* The scanner called directly: Scanner::scan, Scanner::scan_with_hidden *)

\* the directories scanned: /C holds the directories A and B, the files a.t
\* and b.t and the hidden .n, and /C/A holds a file a; the second tree holds
\* in addition the files c and C, whose names differ only in letter case
DirC == << <<"C">> >>
ScanTree ==
    (DirC :> Directory)
    @@ (Join(DirC, <<"b", ".", "t">>) :> File(1))
    @@ (Join(DirC, <<"A">>) :> Directory)
    @@ (Join(DirC, <<"a", ".", "t">>) :> File(2))
    @@ (Join(DirC, <<"B">>) :> Directory)
    @@ (Join(DirC, <<".", "n">>) :> File(3))
    @@ (Join(Join(DirC, <<"A">>), <<"a">>) :> File(4))
ScanTreeTwins ==
    Put(Put(ScanTree, Join(DirC, <<"c">>), File(5)), Join(DirC, <<"C">>), File(6))
ScanFs == { ScanTree, ScanTreeTwins }

\* the paths scan is called with: two directories and a regular file
ScanPaths == { DirC, Join(DirC, <<"A">>), Join(DirC, <<"a", ".", "t">>) }

\* a call of scan_with_hidden and what it returned
ScanResult(path, hidden, r) ==
    [path |-> path, show_hidden |-> hidden, ok |-> r.ok, entries |-> r.entries]

\* a call of Scanner::scan_with_hidden (Scanner::scan is the call with
\* show_hidden false)
ScanCall ==
    /\ call.n < MaxScans
    /\ \E path \in ScanPaths, hidden \in BOOLEAN :
        \E r \in ScanWithHidden(fs, path, hidden) :
            call' = [call EXCEPT !.n = @ + 1, !.op = "scan", !.src = path,
                                 !.before = fs, !.after = fs, !.ok = r.ok,
                                 !.log = Append(@, ScanResult(path, hidden, r))]
    /\ UNCHANGED <<fs, loadVars, pasteVars, search, copier, sideVars>>

InitScan ==
    /\ fs \in ScanFs
    /\ current_path = DirA
    /\ window_path = current_path
    /\ show_hidden = FALSE
    /\ store = <<>>
    /\ store_parts = <<>>
    /\ selection = {}
    /\ all_entries = <<>>
    /\ current_scan_id = 1
    /\ scans = {}
    /\ recv_log = <<>>
    /\ drops = <<>>
    /\ clipboard = NoClipboard
    /\ paste = IdlePaste
    /\ call = NoCall
    /\ search = IdleSearch
    /\ copier = IdleCopier
    /\ history = <<window_path>>
    /\ history_index = 0
    /\ pinned = NoPinned

NextScan == ScanCall

SpecScan == InitScan /\ [][NextScan]_vars

\* the scans made so far that returned Ok
OkScans == {i \in DOMAIN call.log : call.op = "scan" /\ call.log[i].ok}

\* the names of the entries of a scan, in their order
Names(entries) == [i \in DOMAIN entries |-> entries[i].name]

\* C21: in the sequence a scan returns every directory precedes every file,
\* and within the directories and within the files the lower-cased names are
\* in ascending order.
C21_ScanSorted ==
    \A s \in OkScans : LET e == call.log[s].entries IN
        \A i, j \in DOMAIN e :
            i < j =>
                /\ ~(e[j].is_directory /\ ~e[i].is_directory)
                /\ e[i].is_directory = e[j].is_directory =>
                        ~StrLess(ToLowercase(e[j].name), ToLowercase(e[i].name))

\* C21 witness: the scan of b.t, A, a.t, B (A and B directories, .n hidden)
\* returned A, B, a.t, b.t.
C21_Witness ==
    \E s \in OkScans :
        /\ fs = ScanTree
        /\ call.log[s].path = DirC
        /\ ~call.log[s].show_hidden
        /\ Names(call.log[s].entries) =
              << <<"A">>, <<"B">>, <<"a", ".", "t">>, <<"b", ".", "t">> >>

\* C22: two scans of the same directory with the same show_hidden, which
\* holds the same entries both times, return the entries in the same order.
C22_ScanDeterministic ==
    \A s, t \in OkScans :
        (/\ call.log[s].path = call.log[t].path
         /\ call.log[s].show_hidden = call.log[t].show_hidden) =>
            call.log[s].entries = call.log[t].entries

\* the direct children of path on f, found from the paths alone
DirectChildren(f, path) ==
    {p \in DOMAIN f : Len(p) = Len(path) + 1 /\ SubSeq(p, 1, Len(path)) = path}

\* C23: a scan returns each direct child of the path once and nothing else,
\* except that with show_hidden false the children whose names start with '.'
\* are left out.
C23_ScanFiltering ==
    \A s \in OkScans : LET r == call.log[s] IN
        /\ {r.entries[i].path : i \in DOMAIN r.entries} =
             {p \in DirectChildren(fs, r.path) :
                r.show_hidden \/ Head(FileName(p)) # "."}
        /\ \A i, j \in DOMAIN r.entries :
                r.entries[i].path = r.entries[j].path => i = j
        /\ \A i \in DOMAIN r.entries : r.entries[i].name = FileName(r.entries[i].path)

\* C23 witness: /C, which holds .n and the directory A with a file in it, was
\* scanned with show_hidden false and with show_hidden true: the first scan
\* left out .n only, the second nothing, and neither returned /C/A/a.
C23_Witness ==
    \E s, t \in OkScans :
        /\ call.log[s].path = DirC /\ call.log[t].path = DirC
        /\ ~call.log[s].show_hidden /\ call.log[t].show_hidden
        /\ Len(call.log[t].entries) = Len(call.log[s].entries) + 1
        /\ \E i \in DOMAIN call.log[t].entries :
                call.log[t].entries[i].name = <<".", "n">>
        /\ \A i \in DOMAIN call.log[s].entries :
                call.log[s].entries[i].name # <<".", "n">>

----------------------------------------------------------------------------
(* The clipboard: copy, cut, and the snapshot a paste works on *)

\* C24: whatever the clipboard holds, copy(p) leaves it with paths p and mode
\* Copy and cut(p) with paths p and mode Cut, nothing else; and these are the
\* states a copy or cut handler leaves it in.
C24_CopyCutReplaceBoth ==
    /\ [](\A p \in ClipInputs :
            /\ ClipboardCopy(clipboard, p) = [paths |-> p, mode |-> "Copy"]
            /\ ClipboardCut(clipboard, p) = [paths |-> p, mode |-> "Cut"])
    /\ [][(clipboard' # clipboard /\ call' = call /\ clipboard'.mode # "None") =>
            \E p \in ClipInputs :
                clipboard' \in { [paths |-> p, mode |-> "Copy"],
                                 [paths |-> p, mode |-> "Cut"] }]_vars

\* C24 witness: the clipboard holds the three copied files, and a cut of the
\* directory leaves the directory alone in it, in mode Cut.
C24_Witness ==
    /\ clipboard = [paths |-> <<FileA, FileB, FileC>>, mode |-> "Copy"]
    /\ ClipboardCut(clipboard, <<DirN>>) = [paths |-> <<DirN>>, mode |-> "Cut"]
    /\ ClipboardCopy(clipboard, <<DirN>>) = [paths |-> <<DirN>>, mode |-> "Copy"]

\* the clipboard as the paste handler read it
Dispatched == [paths |-> paste.paths, mode |-> paste.mode]

\* C25: the paths and mode of a paste are those the clipboard held when the
\* paste was invoked; they do not change afterwards, whatever is done to the
\* clipboard; every transfer is of the path at its index in them; and no step
\* of the worker thread changes the clipboard.
C25_WorkerSnapshot ==
    /\ [][(paste.pc = "idle" /\ paste'.pc # "idle") =>
            /\ Dispatched' = clipboard
            /\ clipboard' = clipboard]_vars
    /\ [][paste.pc # "idle" => Dispatched' = Dispatched]_vars
    /\ [](\A i \in HistIdx("transfer") :
            paste.hist[i].src = paste.paths[paste.hist[i].idx])
    /\ [][(paste.pc # "idle"
           /\ (paste'.pc # paste.pc \/ paste'.idx # paste.idx
               \/ paste'.hist # paste.hist)) =>
            clipboard' = clipboard]_vars

\* C25 witness: the clipboard was changed after the dispatch, and the worker
\* has since transferred a path of the snapshot which the clipboard no longer
\* holds at that index.
C25_Witness ==
    /\ paste.stale > 0
    /\ clipboard # Dispatched
    /\ \E i \in HistIdx("transfer") :
          /\ paste.hist[i].ok
          /\ paste.hist[i].idx = Len(paste.paths)
          /\ paste.hist[i].src = paste.paths[paste.hist[i].idx]
          /\ paste.hist[i].src # WorkerSourceLive(paste.paths, clipboard.paths,
                                                  paste.hist[i].idx)

----------------------------------------------------------------------------
(* The copy operations called directly: copy_file, copy_file_with_progress *)

\* the tree copied: /A holds a (1 byte), b.t, c and the directory N, which
\* holds a, one byte longer than a chunk, and the empty file n; /B holds b.t
\* and .n
CopyTree ==
    Put(Put(PasteFs, Join(DirN, <<"a">>), File(ChunkSize + 1)), Join(DirN, <<"n">>), File(0))

\* the sources and destinations copy_file is called with
CopySources == { FileA, DirA }
CopyDests == { FileA, DirA, DirB, Join(DirB, <<"b", ".", "t">>), Join(DirB, <<"n">>) }

\* a call of FileOperations::copy_file
CopyFileCall ==
    /\ call.n < MaxCalls
    /\ copier.pc = "idle"
    /\ \E src \in CopySources, dst \in CopyDests :
        \E c \in CopyFile(fs, src, dst) :
            /\ fs' = c.fs
            /\ call' = [n |-> call.n + 1, op |-> "copy_file", src |-> src, dst |-> dst,
                        before |-> fs, after |-> c.fs, ok |-> c.ok, step |-> "copy",
                        log |-> <<>>]
    /\ UNCHANGED <<loadVars, pasteVars, search, copier, sideVars>>

\* the jobs of the copying thread: two files; the tree /A, which holds a
\* directory with a file longer than a chunk and an empty file; a file onto
\* itself
Job(src, dst) == [src |-> src, dst |-> dst]
CopyJobs ==
    { <<Job(FileA, Join(DirB, <<"n">>)), Job(FileB, Join(DirB, <<"b", ".", "t">>))>>,
      <<Job(DirA, Join(DirB, <<"n">>))>>,
      <<Job(FileA, FileA)>> }

\* the thread is given its jobs
CopierStart ==
    /\ copier.pc = "idle"
    /\ \E jobs \in CopyJobs : copier' = [copier EXCEPT !.pc = "next", !.jobs = jobs]
    /\ UNCHANGED <<fs, loadVars, pasteVars, call, search, sideVars>>

\* the call in progress returns: its outcome joins the history
Returned(c, f, ok) ==
    [c EXCEPT !.pc = "next", !.stack = <<>>,
              !.log = Append(@, [src |-> c.src, dst |-> c.dst, ok |-> ok,
                                 before |-> c.before, after |-> f,
                                 bytes |-> c.progress.bytes_copied - c.base.bytes_copied,
                                 files |-> c.progress.files_copied - c.base.files_copied])]

\* copy_file_with_progress is called for the next job: source.is_dir()
CopierCall ==
    /\ copier.pc = "next"
    /\ copier' =
         IF copier.jobs = <<>> THEN [copier EXCEPT !.pc = "done"]
         ELSE LET job == Head(copier.jobs)
              IN [copier EXCEPT !.jobs = Tail(@), !.pending = job,
                                !.src = job.src, !.dst = job.dst, !.before = fs,
                                !.base = copier.progress,
                                !.pc = IF IsDir(fs, job.src) THEN "enter" ELSE "open"]
    /\ UNCHANGED <<fs, loadVars, pasteVars, call, search, sideVars>>

\* copy_dir_recursive_with_progress, lines 135-137: create_dir_all(destination)
\* and read_dir(source); either can fail
CopierEnterDir ==
    /\ copier.pc = "enter"
    /\ LET src == copier.pending.src
           dst == copier.pending.dst
       IN \/ /\ copier' = Returned(copier, fs, FALSE)
             /\ fs' = fs
          \/ /\ IsDir(fs, Parent(dst))
             /\ ~(Exists(fs, dst) /\ ~IsDir(fs, dst))
             /\ IsDir(fs, src)
             /\ fs' = Put(fs, dst, Directory)
             /\ copier' = [copier EXCEPT
                             !.pc = "dir",
                             !.stack = <<[src |-> src, dst |-> dst,
                                          rest |-> ReadDir(fs, src).rest]>> \o @]
    /\ UNCHANGED <<loadVars, pasteVars, call, search, sideVars>>

\* the entry loop of copy_dir_recursive_with_progress, lines 137-156: a
\* directory is recursed into; for a file current_file is set to its name and
\* copy_single_file_with_progress is called; after the last entry the
\* invocation returns Ok
CopierDirEntry ==
    /\ copier.pc = "dir"
    /\ LET top == Head(copier.stack)
       IN copier' =
            IF top.rest = <<>>
            THEN IF Tail(copier.stack) = <<>> THEN Returned(copier, fs, TRUE)
                 ELSE [copier EXCEPT !.stack = Tail(@)]
            ELSE LET e == Head(top.rest)
                     to == Join(top.dst, FileName(e))
                 IN IF IsDir(fs, e)
                    THEN [copier EXCEPT !.stack[1].rest = Tail(@), !.pc = "enter",
                                        !.pending = Job(e, to)]
                    ELSE [copier EXCEPT !.stack[1].rest = Tail(@), !.pc = "open",
                                        !.pending = Job(e, to),
                                        !.progress.current_file = FileName(e)]
    /\ UNCHANGED <<fs, loadVars, pasteVars, call, search, sideVars>>

\* copy_single_file_with_progress, lines 93-95: File::open(source) and
\* File::create(destination), which truncates; either can fail
CopierOpen ==
    /\ copier.pc = "open"
    /\ LET src == copier.pending.src
           dst == copier.pending.dst
       IN \/ /\ copier' = Returned(copier, fs, FALSE)
             /\ fs' = fs
          \/ /\ Exists(fs, src) /\ ~IsDir(fs, src)
             /\ IsDir(fs, Parent(dst))
             /\ ~IsDir(fs, dst)
             /\ fs' = Put(fs, dst, File(0))
             /\ copier' = [copier EXCEPT !.pc = "file",
                                         !.file = [src |-> src, dst |-> dst, offset |-> 0]]
    /\ UNCHANGED <<loadVars, pasteVars, call, search, sideVars>>

\* what the end of copy_single_file_with_progress adds to files_copied,
\* lines 121-125
FileCounted(offset) == 1

\* the copy loop of copy_single_file_with_progress, lines 99-125: a read of at
\* most ChunkSize bytes; when it returns bytes they are written, added to
\* bytes_copied, and current_file is set if it is empty; when it returns none
\* files_copied grows by one and the function returns Ok
CopierChunk ==
    /\ copier.pc = "file"
    /\ LET file == copier.file
           left == fs[file.src].data - file.offset
           bytes_read == IF left > ChunkSize THEN ChunkSize ELSE left
       IN IF bytes_read = 0
          THEN /\ fs' = fs
               /\ LET counted == [copier EXCEPT !.progress.files_copied =
                                                    @ + FileCounted(file.offset)]
                  IN copier' = IF copier.stack = <<>> THEN Returned(counted, fs, TRUE)
                               ELSE [counted EXCEPT !.pc = "dir"]
          ELSE /\ fs' = Put(fs, file.dst, File(file.offset + bytes_read))
               /\ copier' = [copier EXCEPT
                               !.file.offset = @ + bytes_read,
                               !.progress.bytes_copied = @ + bytes_read,
                               !.progress.current_file =
                                    IF @ = <<>> THEN FileName(file.src) ELSE @]
    /\ UNCHANGED <<loadVars, pasteVars, call, search, sideVars>>

InitCopy ==
    /\ fs = CopyTree
    /\ current_path = DirA
    /\ window_path = current_path
    /\ show_hidden = FALSE
    /\ store = <<>>
    /\ store_parts = <<>>
    /\ selection = {}
    /\ all_entries = <<>>
    /\ current_scan_id = 1
    /\ scans = {}
    /\ recv_log = <<>>
    /\ drops = <<>>
    /\ clipboard = NoClipboard
    /\ paste = IdlePaste
    /\ call = NoCall
    /\ search = IdleSearch
    /\ copier = IdleCopier
    /\ history = <<window_path>>
    /\ history_index = 0
    /\ pinned = NoPinned

NextCopy ==
    \/ CopyFileCall
    \/ CopierStart
    \/ CopierCall
    \/ CopierEnterDir
    \/ CopierDirEntry
    \/ CopierOpen
    \/ CopierChunk

SpecCopy == InitCopy /\ [][NextCopy]_vars

C28_ReloadAfterFinished ==
    (paste.ui = "closed") ~>
        /\ paste.refresh = "issued"
        /\ \E s \in scans : s.scan_id = current_scan_id /\ s.path = current_path

\* the reload has been issued after a paste in which a transfer failed and a
\* conflict was answered with Cancel
C28_Witness ==
    /\ paste.ui = "closed"
    /\ paste.refresh = "issued"
    /\ \E s \in scans : s.scan_id = current_scan_id /\ s.path = current_path
    /\ \E i \in DOMAIN paste.hist : paste.hist[i].ev = "transfer" /\ ~paste.hist[i].ok
    /\ \E i \in DOMAIN paste.hist : paste.hist[i].ev = "Cancel"

\* the worker is about to transfer onto a directory that exists, after a
\* Replace answered the conflict on it
ReplacingDir ==
    /\ paste.pc = "transfer"
    /\ paste.replace_for = paste.dest_path
    /\ IsDir(fs, paste.dest_path)

\* the names of the entries of a directory
EntryNames(f, dir) == { FileName(p) : p \in Children(f, dir) }

\* C27: when the worker transfers, in Copy or Cut mode, onto an existing
\* directory after a Replace, every entry of that directory whose name is not
\* the name of an entry of the source is there afterwards with everything
\* below it unchanged, and when the transfer succeeded every file of the
\* source has been written over the destination's file of the same name.
C27_ReplaceMerges ==
    [][ (ReplacingDir /\ paste'.pc # paste.pc) =>
          LET src == CurrentSource
              dst == paste.dest_path
          IN /\ \A p \in Children(fs, dst) :
                    FileName(p) \notin EntryNames(fs, src) =>
                        \A q \in Subtree(fs, p) : Exists(fs', q) /\ fs'[q] = fs[q]
             /\ (paste'.hist[Len(paste'.hist)].ok /\ src # dst) =>
                    \A p \in Children(fs, src) :
                        ~IsDir(fs, p) =>
                            /\ Exists(fs', Join(dst, FileName(p)))
                            /\ fs'[Join(dst, FileName(p))] = fs[p] ]_vars

\* a Cut of /A/N pasted into /B with Replace has succeeded: /B/N holds c as
\* before, a with the source's content and n, and /A/N is gone
C27_Witness ==
    LET DestN == Join(DirB, <<"N">>)
    IN /\ paste.mode = "Cut"
       /\ paste.replace_for = DestN
       /\ \E i \in DOMAIN paste.hist :
             /\ paste.hist[i].ev = "transfer" /\ paste.hist[i].ok
             /\ paste.hist[i].src = DirN /\ paste.hist[i].dst = DestN
       /\ Exists(fs, Join(DestN, <<"c">>)) /\ fs[Join(DestN, <<"c">>)] = File(8)
       /\ Exists(fs, Join(DestN, <<"a">>)) /\ fs[Join(DestN, <<"a">>)] = File(6)
       /\ Exists(fs, Join(DestN, <<"n">>))
       /\ ~Exists(fs, DirN)

\* the calls of copy_file_with_progress that have returned Ok
OkCopies == { i \in 1..Len(copier.log) : copier.log[i].ok }

\* C29: a call of copy_file_with_progress that returned Ok has raised
\* bytes_copied by the sum of the sizes of the regular files at and below its
\* source and files_copied by their number, the empty ones included.
C29_Accounting ==
    \A i \in OkCopies :
        LET r == copier.log[i]
            files == FilesUnder(r.before, r.src)
        IN /\ r.bytes = TotalLen(r.before, files)
           /\ r.files = Cardinality(files)

\* C30: while copy_single_file_with_progress has a file open and has written
\* bytes of it, current_file is the name of that file, whether the file is a
\* job of its own or lies inside a directory that is being copied.
C30_CurrentFileIsOpenFile ==
    (copier.pc = "file" /\ copier.file.offset > 0) =>
        copier.progress.current_file = FileName(copier.file.src)

----------------------------------------------------------------------------
(* The rename path of move_file_with_progress *)

\* C31: when move_file_with_progress has renamed a regular file, it has made
\* one update of ProgressInfo, which adds 1 to files_copied and the size of
\* the file to bytes_copied.
C31_FastPathCounts ==
    (/\ call.op = "move_file_with_progress"
     /\ call.step = "rename"
     /\ ~IsDir(call.before, call.src)) =>
        call.log = <<[files |-> 1, bytes |-> call.before[call.src].data]>>

----------------------------------------------------------------------------
(* The synchronous Clipboard::paste *)

\* a step is a call of Clipboard::paste
PasteCalled == call'.n = call.n + 1 /\ call'.op = "paste"

----------------------------------------------------------------------------
(* The sources of a Copy paste *)

\* C33: while and after a paste in Copy mode runs, every source path of its
\* snapshot and everything below it exists with the content it had when the
\* paste was invoked, whatever the destination directory and the answers to
\* the conflicts.
C33_CopyKeepsSources ==
    (paste.pc # "idle" /\ paste.mode = "Copy") =>
        \A i \in DOMAIN paste.paths :
            \A q \in Subtree(PasteFs, paste.paths[i]) :
                Exists(fs, q) /\ fs[q] = PasteFs[q]

----------------------------------------------------------------------------
(* The progress counters when the paste finishes *)

\* the worker has sent Finished after a paste in which no destination existed
\* and every transfer returned Ok
FinishedClean ==
    /\ HistIdx("finished") # {}
    /\ HistIdx("conflict") = {}
    /\ \A i \in HistIdx("transfer") : paste.hist[i].ok
    /\ Len(paste.hist) = Len(paste.paths) + 1

\* C34: when Finished is emitted by a paste in Copy or Cut mode that met no
\* conflict and no error, files_copied = total_files and
\* bytes_copied = total_bytes.
C34_CountersReachTotals ==
    FinishedClean =>
        /\ paste.progress.files_copied = paste.progress.total_files
        /\ paste.progress.bytes_copied = paste.progress.total_bytes

----------------------------------------------------------------------------
(* The entries a search's completion callback receives *)

\* C35: every entry of the list a search's on_complete was called with has a
\* lower-cased name that contains the lower-cased query of that search, also
\* when other searches were started on the engine while its worker ran.
C35_DeliveredMatchOwnQuery ==
    \A w \in Workers :
        search.workers[w].called > 0 =>
            \A name \in search.workers[w].delivered_names :
                Contains(name, search.workers[w].query)

----------------------------------------------------------------------------
(* Drop workers that run at the same time *)

\* drops explored where the workers run at the same time
MaxRacing == 2

\* /A/b.t and /A/N/b.t are dropped onto the view of /B, which holds b.t
DropFs == Put(PasteFs, Join(DirN, <<"b", ".", "t">>), File(9))

InitDrop ==
    /\ fs = DropFs
    /\ current_path = DirB
    /\ window_path = current_path
    /\ show_hidden = FALSE
    /\ store = <<>>
    /\ store_parts = <<>>
    /\ selection = {}
    /\ all_entries = <<>>
    /\ current_scan_id = 1
    /\ scans = {}
    /\ recv_log = <<>>
    /\ drops = <<>>
    /\ clipboard = NoClipboard
    /\ paste = IdlePaste
    /\ call = NoCall
    /\ search = IdleSearch
    /\ copier = IdleCopier
    /\ history = <<window_path>>
    /\ history_index = 0
    /\ pinned = NoPinned

\* the file lists dropped: b.t of /A, and b.t of /A/N
RacingInputs == { <<FileB>>, <<Join(DirN, <<"b", ".", "t">>)>> }

\* a drop while the workers of earlier drops may still be running
DropRacing == DropOf(RacingInputs, MaxRacing)

NextDrop ==
    \/ DropRacing
    \/ DropCheck
    \/ DropCopy
    \/ DropSignal
    \/ DropRecv
    \/ DropRescan

SpecDrop == InitDrop /\ [][NextDrop]_vars

\* C36: two drop workers that have each settled on a destination for
\* different sources have settled on different paths.
C36_DistinctDestinations ==
    \A j, k \in DOMAIN drops :
        (/\ j # k
         /\ drops[j].phase = "chosen" /\ drops[k].phase = "chosen"
         /\ drops[j].files[drops[j].idx] # drops[k].files[drops[k].idx]) =>
            drops[j].dest_path # drops[k].dest_path

----------------------------------------------------------------------------
(* The navigation history of the window *)

MaxNav == 6       \* navigations, back and forward gestures explored

\* the directories navigated to
NavDirs == {DirA, DirB, DirN}

\* a back gesture that is also taken at the first entry
CanGoBackFromFirst(idx) == idx >= 0

\* gesture_back: if *idx > 0
CanGoBack(idx) == idx > 0

\* gesture_forward: if (*idx as usize) < hist.len() - 1
CanGoForward(idx, hist) == idx < Len(hist) - 1

\* the body shared by both gestures once the index has moved:
\* if let Some(path) = hist.get(*idx) { current_path.replace(path);
\* file_view.load_directory(path); header_bar.set_path(path) }
ShowHistoryEntry(idx) ==
    IF idx + 1 \in DOMAIN history
    THEN /\ window_path' = history[idx + 1]
         /\ LoadDirectoryUpTo(history[idx + 1], MaxNav)
    ELSE UNCHANGED <<window_path, current_path, store, store_parts, selection,
                     all_entries, show_hidden, current_scan_id, scans>>

\* the handler of the back gesture (swipe right, mouse button 8)
GestureBack ==
    /\ IF CanGoBack(history_index)
       THEN /\ history_index' = history_index - 1
            /\ ShowHistoryEntry(history_index - 1)
            /\ UNCHANGED <<recv_log, drops>>
       ELSE UNCHANGED <<history_index, window_path, loadVars>>
    /\ UNCHANGED <<fs, history, clipboard, paste, apiVars, pinned>>

\* the handler of the forward gesture (swipe left, mouse button 9)
GestureForward ==
    /\ IF CanGoForward(history_index, history)
       THEN /\ history_index' = history_index + 1
            /\ ShowHistoryEntry(history_index + 1)
            /\ UNCHANGED <<recv_log, drops>>
       ELSE UNCHANGED <<history_index, window_path, loadVars>>
    /\ UNCHANGED <<fs, history, clipboard, paste, apiVars, pinned>>

\* a navigation of the window: every caller of navigate_to (path bar,
\* sidebar, directory activation) passes add_to_history = true
NavigateAnywhere == \E path \in NavDirs : NavigateTo(path, TRUE, MaxNav)

\* the window after construction: the initial directory is loaded, pushed to
\* the history, and history_index is 0
InitNav ==
    /\ fs = PasteFs
    /\ current_path = DirA
    /\ store = <<>>
    /\ store_parts = <<>>
    /\ selection = {}
    /\ all_entries = <<>>
    /\ show_hidden = FALSE
    /\ current_scan_id = 1
    /\ scans = {[scan_id |-> 1, path |-> DirA, show_hidden |-> show_hidden,
                 sent |-> FALSE, result |-> ScanErr]}
    /\ recv_log = <<>>
    /\ drops = <<>>
    /\ clipboard = NoClipboard
    /\ window_path = DirA
    /\ paste = IdlePaste
    /\ call = NoCall
    /\ search = IdleSearch
    /\ copier = IdleCopier
    /\ history = <<window_path>>
    /\ history_index = 0
    /\ pinned = NoPinned

NextNav ==
    \/ NavigateAnywhere
    \/ GestureBack
    \/ GestureForward

SpecNav == InitNav /\ [][NextNav]_vars

\* C37: the history index always points into the history and the entry it
\* points at is the path the window shows; a back gesture at the first entry
\* and a forward gesture at the last entry change nothing.
C37_HistoryIndexInRange ==
    /\ [](/\ history_index >= 0
          /\ history_index < Len(history)
          /\ history[history_index + 1] = window_path)
    /\ [][(\/ GestureBack /\ history_index = 0
           \/ GestureForward /\ history_index = Len(history) - 1) =>
                UNCHANGED vars]_vars

\* two navigations and two back gestures: the window is back at the first of
\* three entries
C37_Witness ==
    /\ history = <<DirA, DirB, DirN>>
    /\ history_index = 0
    /\ window_path = DirA
    /\ current_scan_id = 5

----------------------------------------------------------------------------
(* The store of pinned folders *)

MaxPins == 3      \* calls of the pinned folder store explored

\* a path written with a trailing '/': its last component is the empty name
Slash(path) == Append(path, <<>>)

\* the paths handed to the store: directories with and without a trailing
\* '/', a file, and a path that does not exist
PinPaths == {DirA, Slash(DirA), DirB, DirN, FileA, Join(DirB, <<"x">>)}

\* the display names typed into the rename dialog
PinNames == { <<"n">> }

RECURSIVE TrimEndSlashes(_)
\* trim_end_matches('/'); the empty sequence is "/"
TrimEndSlashes(path) ==
    IF path # <<>> /\ path[Len(path)] = <<>>
    THEN TrimEndSlashes(SubSeq(path, 1, Len(path) - 1))
    ELSE path

\* Path::exists of a path that may end in '/': such a path must be a directory
PathExists(f, path) ==
    IF TrimEndSlashes(path) = path
    THEN Exists(f, path)
    ELSE IsDir(f, TrimEndSlashes(path))

\* the Ok value of Path::canonicalize; the tree has no symbolic links and the
\* paths no "." or "..", so that only the trailing separators go
Canonical(path) == TrimEndSlashes(path)

\* PinnedFolderStore::normalize_path
NormalizePath(f, path) ==
    IF PathExists(f, path) THEN Canonical(path) ELSE TrimEndSlashes(path)

\* PinnedFolderStore::find_index: the first index whose stored path
\* normalizes to the normalized path, 0 for None
FindIndex(f, items, path) ==
    LET normalized == NormalizePath(f, path)
        found == {i \in DOMAIN items : NormalizePath(f, items[i].path) = normalized}
    IN  IF found = {} THEN 0 ELSE CHOOSE i \in found : \A j \in found : i <= j

\* PinnedFolderStore::is_pinned
IsPinned(f, items, path) == FindIndex(f, items, NormalizePath(f, path)) # 0

\* the result of a call that ends in save_to_file(): Ok when the file was
\* written, the io::Error otherwise
Saved(items, saved, value) ==
    [store |-> items, ok |-> saved, err |-> IF saved THEN "none" ELSE "Io",
     value |-> value]

\* a call that returns ErrorKind::NotFound
NotFound(items) == [store |-> items, ok |-> FALSE, err |-> "NotFound", value |-> FALSE]

\* gio::ListStore::remove(index)
RemoveAt(items, index) ==
    SubSeq(items, 1, index - 1) \o SubSeq(items, index + 1, Len(items))

\* PinnedFolderStore::add; saved is whether save_to_file succeeds
PinnedAdd(f, items, path, saved) ==
    IF ~PathExists(f, path)
    THEN NotFound(items)
    ELSE LET normalized == NormalizePath(f, path)
         IN  IF IsPinned(f, items, normalized)
             THEN [store |-> items, ok |-> TRUE, err |-> "none", value |-> FALSE]
             ELSE Saved(Append(items, [path |-> normalized,
                                       name |-> FileName(TrimEndSlashes(path))]),
                        saved, FALSE)

\* PinnedFolderStore::remove
PinnedRemove(f, items, path, saved) ==
    LET index == FindIndex(f, items, NormalizePath(f, path))
    IN  IF index # 0
        THEN Saved(RemoveAt(items, index), saved, FALSE)
        ELSE NotFound(items)

\* PinnedFolderStore::toggle_pin: `?` returns the error of remove or add,
\* otherwise Ok(false) after the remove and Ok(true) after the add
PinnedTogglePin(f, items, path, saved) ==
    LET normalized == NormalizePath(f, path)
        r == IF IsPinned(f, items, normalized)
             THEN PinnedRemove(f, items, normalized, saved)
             ELSE PinnedAdd(f, items, normalized, saved)
    IN  [r EXCEPT !.value = r.ok /\ ~IsPinned(f, items, normalized)]

\* PinnedFolderStore::rename
PinnedRename(f, items, path, new_name, saved) ==
    LET index == FindIndex(f, items, NormalizePath(f, path))
    IN  IF index # 0
        THEN Saved([items EXCEPT ![index].name = new_name], saved, FALSE)
        ELSE NotFound(items)

\* the store and the history after a call op(path) that returned r
PinnedAfter(op, path, r) ==
    [store |-> r.store, n |-> pinned.n + 1, op |-> op, path |-> path,
     ok |-> r.ok, err |-> r.err, value |-> r.value]

\* a call of add
PinAdd ==
    /\ pinned.n < MaxPins
    /\ \E path \in PinPaths, saved \in BOOLEAN :
        pinned' = PinnedAfter("add", path, PinnedAdd(fs, pinned.store, path, saved))
    /\ UNCHANGED <<fs, loadVars, pasteVars, apiVars, history, history_index>>

\* a call of remove
PinRemove ==
    /\ pinned.n < MaxPins
    /\ \E path \in PinPaths, saved \in BOOLEAN :
        pinned' = PinnedAfter("remove", path,
                              PinnedRemove(fs, pinned.store, path, saved))
    /\ UNCHANGED <<fs, loadVars, pasteVars, apiVars, history, history_index>>

\* a call of toggle_pin
PinTogglePin ==
    /\ pinned.n < MaxPins
    /\ \E path \in PinPaths, saved \in BOOLEAN :
        pinned' = PinnedAfter("toggle_pin", path,
                              PinnedTogglePin(fs, pinned.store, path, saved))
    /\ UNCHANGED <<fs, loadVars, pasteVars, apiVars, history, history_index>>

\* a call of rename
PinRename ==
    /\ pinned.n < MaxPins
    /\ \E path \in PinPaths, new_name \in PinNames, saved \in BOOLEAN :
        pinned' = PinnedAfter("rename", path,
                              PinnedRename(fs, pinned.store, path, new_name, saved))
    /\ UNCHANGED <<fs, loadVars, pasteVars, apiVars, history, history_index>>

\* a folder is deleted while it may be pinned
FolderDeleted ==
    /\ Exists(fs, DirN)
    /\ fs' = RemoveTree(fs, DirN)
    /\ UNCHANGED <<loadVars, pasteVars, apiVars, sideVars>>

\* PinnedFolderStore::new: no pinned file yet, so that load_from_file returns
\* an empty store
InitPinned == InitNav

NextPinned ==
    \/ PinAdd
    \/ PinRemove
    \/ PinTogglePin
    \/ PinRename
    \/ FolderDeleted

SpecPinned == InitPinned /\ [][NextPinned]_vars

\* the store's call in this step
PinCalled(op) == pinned'.n = pinned.n + 1 /\ pinned'.op = op

\* C40: the store never holds two entries whose paths normalize to the same
\* path; an add of a path that is pinned returns Ok and leaves the store as it
\* was; a remove of a path that is not pinned returns a NotFound error and
\* leaves the store as it was; and toggle_pin returns true exactly when the
\* path is pinned after the call.
C40_PinnedStore ==
    /\ [](\A i, j \in DOMAIN pinned.store :
            NormalizePath(fs, pinned.store[i].path)
                = NormalizePath(fs, pinned.store[j].path) => i = j)
    /\ [][/\ (PinCalled("add") /\ IsPinned(fs, pinned.store, pinned'.path)) =>
                /\ pinned'.ok
                /\ pinned'.store = pinned.store
          /\ (PinCalled("remove") /\ ~IsPinned(fs, pinned.store, pinned'.path)) =>
                /\ ~pinned'.ok
                /\ pinned'.err = "NotFound"
                /\ pinned'.store = pinned.store
          /\ PinCalled("toggle_pin") =>
                ((pinned'.ok /\ pinned'.value)
                    <=> IsPinned(fs, pinned'.store, pinned'.path))]_vars

====
